---- MODULE Spec2Model ----
(***************************************************************************)
(* Threshold evaluation, violation state and throttling of the             *)
(* tfc-system-monitor: monitor/state.go, monitor/thresholds.go, the alert  *)
(* dispatch of monitor/alerts.go and the drivers of main.go.               *)
(*                                                                         *)
(* Time is the Unix clock in whole seconds (time.Now().Unix()).  A         *)
(* *float64 is a sequence: <<>> is nil, <<t>> points to t.                 *)
(***************************************************************************)
EXTENDS Integers, Sequences, FiniteSets, TLC

(* ------------------------------ bounds --------------------------------- *)

\* The clock stops advancing here.
MaxClock == 60

\* The clock advances by one of these numbers of seconds.
TickSteps == {30}

\* The accept counter of an episode saturates here.
AcceptCap == 2

(* --------------------------- names and keys ---------------------------- *)

MetricOrder == <<"cpu", "disk", "memory">>

LevelOrder == <<"critical", "warning">>

MetricNames == {MetricOrder[i] : i \in DOMAIN MetricOrder}

LevelNames == {LevelOrder[i] : i \in DOMAIN LevelOrder}

\* fmt.Sprintf("%s_%s", metric, level)
Key(metric, level) == metric \o "_" \o level

AllKeys == {Key(m, l) : m \in MetricNames, l \in LevelNames}

\* The keys in the order encoding/json writes a map: sorted by key.
KeyOrder ==
    <<Key("cpu", "critical"), Key("cpu", "warning"),
      Key("disk", "critical"), Key("disk", "warning"),
      Key("memory", "critical"), Key("memory", "warning")>>

EmptyStates == [k \in {} |-> 0]

(* --------------------------- ViolationState ---------------------------- *)

\* A new state dated from the start of the clock.
NewViolationState_AtEpoch(metric, level, now) ==
    [Metric |-> metric, Level |-> level, FirstDetectedTime |-> 0,
     LastAlertTime |-> <<>>, HasAlerted |-> FALSE]

\* A new state that already carries a last alert time.
NewViolationState_Stamped(metric, level, now) ==
    [Metric |-> metric, Level |-> level, FirstDetectedTime |-> now,
     LastAlertTime |-> <<now>>, HasAlerted |-> FALSE]

\* A new state that counts as alerted from the start.
NewViolationState_Alerted(metric, level, now) ==
    [Metric |-> metric, Level |-> level, FirstDetectedTime |-> now,
     LastAlertTime |-> <<>>, HasAlerted |-> TRUE]

NewViolationState(metric, level, now) ==
    [Metric |-> metric, Level |-> level, FirstDetectedTime |-> now,
     LastAlertTime |-> <<>>, HasAlerted |-> FALSE]

\* GetOrCreate starting a new state from the state the same metric has at
\* another level, when there is one.
GetOrCreate_InheritsMetric(States, metric, level, now) ==
    LET key == Key(metric, level)
        others == {k \in DOMAIN States : States[k].Metric = metric}
    IN  IF key \in DOMAIN States
        THEN States
        ELSE [k \in DOMAIN States \cup {key} |->
                IF k # key
                THEN States[k]
                ELSE IF others = {}
                THEN NewViolationState(metric, level, now)
                ELSE [States[CHOOSE o \in others : TRUE] EXCEPT !.Level = level]]

\* GetOrCreate putting a new state under the key whether or not one exists.
GetOrCreate_Overwrites(States, metric, level, now) ==
    [k \in DOMAIN States \cup {Key(metric, level)} |->
        IF k = Key(metric, level)
        THEN NewViolationState(metric, level, now)
        ELSE States[k]]

\* StateManager.GetOrCreate: the map after the call (the state is States[key]).
GetOrCreate(States, metric, level, now) ==
    LET key == Key(metric, level) IN
    IF key \in DOMAIN States
    THEN States
    ELSE [k \in DOMAIN States \cup {key} |->
            IF k = key THEN NewViolationState(metric, level, now) ELSE States[k]]

\* ViolationState.DurationMinutes, in sixtieths of a minute: the code divides
\* the same difference by 60.0.
DurationMinutes(vs, now) == now - vs.FirstDetectedTime

\* time.ParseDuration on the interval strings of the configurations used
\* here, in seconds; every other string is an error.
DurationTable ==
    [s \in {"30s", "1m", "0s"} |->
        IF s = "30s" THEN 30 ELSE IF s = "1m" THEN 60 ELSE 0]

parseDuration(s) ==
    IF s \in DOMAIN DurationTable
    THEN [err |-> FALSE, d |-> DurationTable[s]]
    ELSE [err |-> TRUE, d |-> 0]

\* ShouldAlert without its minimum-duration test.
ShouldAlert_NoMinDuration(vs, now, minDurationMinutes, repeat, repeatInterval) ==
    IF vs.HasAlerted /\ ~repeat
    THEN [alert |-> FALSE, err |-> FALSE]
    ELSE [alert |-> TRUE, err |-> FALSE]

\* ShouldAlert treating every alerted state as final, whatever repeat says.
ShouldAlert_NeverRepeats(vs, now, minDurationMinutes, repeat, repeatInterval) ==
    IF DurationMinutes(vs, now) < minDurationMinutes * 60
    THEN [alert |-> FALSE, err |-> FALSE]
    ELSE [alert |-> ~vs.HasAlerted, err |-> FALSE]

\* ViolationState.ShouldAlert: (bool, error).
ShouldAlert(vs, now, minDurationMinutes, repeat, repeatInterval) ==
    IF DurationMinutes(vs, now) < minDurationMinutes * 60
    THEN [alert |-> FALSE, err |-> FALSE]
    ELSE IF vs.HasAlerted /\ ~repeat
    THEN [alert |-> FALSE, err |-> FALSE]
    ELSE IF vs.HasAlerted /\ repeatInterval # ""
    THEN LET p == parseDuration(repeatInterval) IN
         IF p.err
         THEN [alert |-> FALSE, err |-> TRUE]
         ELSE IF p.d > 0 /\ vs.LastAlertTime # <<>>
                 /\ now - vs.LastAlertTime[1] < p.d
         THEN [alert |-> FALSE, err |-> FALSE]
         ELSE [alert |-> TRUE, err |-> FALSE]
    ELSE [alert |-> TRUE, err |-> FALSE]

\* MarkAlerted recording the time but not the flag.
MarkAlerted_KeepsFlag(vs, now) ==
    [vs EXCEPT !.LastAlertTime = <<now>>]

\* ViolationState.MarkAlerted
MarkAlerted(vs, now) ==
    [vs EXCEPT !.LastAlertTime = <<now>>, !.HasAlerted = TRUE]

(* ------------------------- the state file ------------------------------ *)

\* The file is a sequence of JSON tokens; each token is [k, v] with v a
\* sequence of strings.
Open == [k |-> "punct", v |-> <<"{">>]

Close == [k |-> "punct", v |-> <<"}">>]

DigitChars == <<"0", "1", "2", "3", "4", "5", "6", "7", "8", "9">>

RECURSIVE FormatDigits(_)
FormatDigits(n) ==
    IF n < 10
    THEN <<DigitChars[n + 1]>>
    ELSE Append(FormatDigits(n \div 10), DigitChars[(n % 10) + 1])

DigitValue(c) == (CHOOSE i \in DOMAIN DigitChars : DigitChars[i] = c) - 1

RECURSIVE ParseDigits(_)
ParseDigits(ds) ==
    IF Len(ds) = 0
    THEN 0
    ELSE 10 * ParseDigits(SubSeq(ds, 1, Len(ds) - 1)) + DigitValue(ds[Len(ds)])

StrToken(s) == [k |-> "str", v |-> <<s>>]

NumToken(n) == [k |-> "num", v |-> FormatDigits(n)]

NullToken == [k |-> "null", v |-> <<>>]

BoolToken(b) == [k |-> "bool", v |-> <<IF b THEN "true" ELSE "false">>]

\* EntryTokens writing null for every last_alert_time.
EntryTokens_DropsLastAlert(key, vs) ==
    <<StrToken(key), StrToken(vs.Metric), StrToken(vs.Level),
      NumToken(vs.FirstDetectedTime), NullToken, BoolToken(vs.HasAlerted)>>

\* One "<key>": {metric, level, first_detected_time, last_alert_time,
\* has_alerted} member of the object.
EntryTokens(key, vs) ==
    <<StrToken(key), StrToken(vs.Metric), StrToken(vs.Level),
      NumToken(vs.FirstDetectedTime),
      IF vs.LastAlertTime = <<>> THEN NullToken ELSE NumToken(vs.LastAlertTime[1]),
      BoolToken(vs.HasAlerted)>>

RECURSIVE MarshalFrom(_, _)
MarshalFrom(States, i) ==
    IF i > Len(KeyOrder)
    THEN <<>>
    ELSE (IF KeyOrder[i] \in DOMAIN States
          THEN EntryTokens(KeyOrder[i], States[KeyOrder[i]])
          ELSE <<>>) \o MarshalFrom(States, i + 1)

\* json.MarshalIndent of the map
Marshal(States) == <<Open>> \o MarshalFrom(States, 1) \o <<Close>>

EntryOK(e) ==
    /\ e[1].k = "str" /\ e[2].k = "str" /\ e[3].k = "str"
    /\ e[4].k = "num" /\ e[5].k \in {"num", "null"} /\ e[6].k = "bool"

DecodeEntry(e) ==
    [Metric |-> e[2].v[1], Level |-> e[3].v[1],
     FirstDetectedTime |-> ParseDigits(e[4].v),
     LastAlertTime |-> IF e[5].k = "null" THEN <<>> ELSE <<ParseDigits(e[5].v)>>,
     HasAlerted |-> e[6].v[1] = "true"]

\* json.Unmarshal into map[string]*ViolationState
Unmarshal(data) ==
    LET n == Len(data)
        shaped == n >= 2 /\ data[1] = Open /\ data[n] = Close /\ (n - 2) % 6 = 0
        cnt == (n - 2) \div 6
        ent(i) == SubSeq(data, 6 * i - 4, 6 * i + 1)
    IN  IF ~shaped \/ (\E i \in 1..cnt : ~EntryOK(ent(i)))
        THEN [err |-> TRUE, states |-> EmptyStates]
        ELSE [err |-> FALSE,
              states |-> [key \in {ent(i)[1].v[1] : i \in 1..cnt} |->
                  DecodeEntry(ent(CHOOSE i \in 1..cnt :
                      /\ ent(i)[1].v[1] = key
                      /\ \A j \in 1..cnt : ent(j)[1].v[1] = key => j <= i))]]

\* The state file: ro says that it cannot be opened for writing (its
\* directory or file system refuses), so that os.WriteFile fails.
NoFile == [exists |-> FALSE, data |-> <<>>, ro |-> FALSE]

\* os.WriteFile's error.
WriteFileError(file) == file.ro

\* os.WriteFile, first half: open with O_CREATE|O_TRUNC.
OpenTrunc(file) ==
    IF WriteFileError(file) THEN file ELSE [exists |-> TRUE, data |-> <<>>, ro |-> FALSE]

\* os.WriteFile, second half: write data at offset 0 of the open file.
WriteAt0(file, data) ==
    IF WriteFileError(file)
    THEN file
    ELSE [exists |-> TRUE,
          data |-> data \o (IF Len(file.data) > Len(data)
                            THEN SubSeq(file.data, Len(data) + 1, Len(file.data))
                            ELSE <<>>),
          ro |-> FALSE]

\* StateManager.save, run without interruption: the file afterwards.
save(States, file) == WriteAt0(OpenTrunc(file), Marshal(States))

\* StateManager.save: whether it returns an error.
saveError(States, file) == WriteFileError(file)

\* load leaving the manager's map empty.
load_Forgets(file) == [err |-> FALSE, States |-> EmptyStates]

\* load starting from an empty map when the file does not parse.
load_StartsEmptyOnCorruption(file) ==
    IF ~file.exists
    THEN [err |-> FALSE, States |-> EmptyStates]
    ELSE LET u == Unmarshal(file.data) IN
         [err |-> FALSE, States |-> u.states]

\* StateManager.load on a manager with an empty map: (error, States).
load(file) ==
    IF ~file.exists
    THEN [err |-> FALSE, States |-> EmptyStates]
    ELSE LET u == Unmarshal(file.data) IN
         [err |-> u.err, States |-> u.states]

\* NewStateManager
NewStateManager(file) == load(file)

\* StateManager.Clear: the manager (map and file) afterwards.
Clear(sm, metric, level) ==
    LET key == Key(metric, level) IN
    IF key \in DOMAIN sm.States
    THEN LET rest == [k \in DOMAIN sm.States \ {key} |-> sm.States[k]] IN
         [States |-> rest, file |-> save(rest, sm.file), writes |-> sm.writes + 1]
    ELSE sm

(* --------------------------- configuration ----------------------------- *)

\* Config.GetMetricConfig: (MetricConfig, ok)
GetMetricConfig(config, metricName) ==
    IF metricName \in DOMAIN config.Metrics
    THEN [ok |-> TRUE, mc |-> config.Metrics[metricName]]
    ELSE [ok |-> FALSE, mc |-> <<>>]

\* Config.GetThrottleConfig
GetThrottleConfig(config, metricName) ==
    IF metricName \in DOMAIN config.Metrics
    THEN config.Metrics[metricName].Throttle
    ELSE [MinDurationMinutes |-> 0, Repeat |-> FALSE, RepeatInterval |-> ""]

\* Config.GetAlertActions
GetAlertActions(config, level) ==
    IF level \in DOMAIN config.Alerts THEN config.Alerts[level] ELSE <<>>

\* thresholds["warning"] of a Go map: 0 when the key is absent.
Threshold(thresholds, level) ==
    IF level \in DOMAIN thresholds THEN thresholds[level] ELSE 0

(* ----------------------------- evaluator ------------------------------- *)

\* strconv.ParseFloat on a reading, a sequence of characters: a non-empty
\* sequence of decimal digits parses, every other reading is an error.
ParseFloat(s) ==
    IF Len(s) > 0 /\ \A i \in DOMAIN s : \E j \in DOMAIN DigitChars : DigitChars[j] = s[i]
    THEN [err |-> FALSE, val |-> ParseDigits(s)]
    ELSE [err |-> TRUE, val |-> 0]

Violation(metric, level, message, value) ==
    [Metric |-> metric, Level |-> level, Message |-> message, Value |-> value]

\* checkPartition testing the two severities independently.
checkPartition_BothSeverities(partition, warningThreshold, criticalThreshold) ==
    LET p == ParseFloat(partition.Percentage) IN
    IF p.err
    THEN <<>>
    ELSE (IF criticalThreshold > 0 /\ p.val > criticalThreshold
          THEN <<Violation("disk", "critical",
                           <<partition.Device, partition.Mountpoint>>, p.val)>>
          ELSE <<>>)
         \o (IF warningThreshold > 0 /\ p.val > warningThreshold
             THEN <<Violation("disk", "warning",
                              <<partition.Device, partition.Mountpoint>>, p.val)>>
             ELSE <<>>)

\* The body of the loop of checkDiskThresholds for one partition.
checkPartition(partition, warningThreshold, criticalThreshold) ==
    LET p == ParseFloat(partition.Percentage) IN
    IF p.err
    THEN <<>>
    ELSE IF criticalThreshold > 0 /\ p.val > criticalThreshold
    THEN <<Violation("disk", "critical",
                     <<partition.Device, partition.Mountpoint>>, p.val)>>
    ELSE IF warningThreshold > 0 /\ p.val > warningThreshold
    THEN <<Violation("disk", "warning",
                     <<partition.Device, partition.Mountpoint>>, p.val)>>
    ELSE <<>>

RECURSIVE checkPartitions(_, _, _, _)
checkPartitions(partitions, i, warningThreshold, criticalThreshold) ==
    IF i > Len(partitions)
    THEN <<>>
    ELSE checkPartition(partitions[i], warningThreshold, criticalThreshold)
         \o checkPartitions(partitions, i + 1, warningThreshold, criticalThreshold)

\* checkDiskThresholds evaluating a metric that is configured but disabled.
checkDiskThresholds_IgnoresEnabled(config, stats) ==
    LET g == GetMetricConfig(config, "disk") IN
    IF ~g.ok
    THEN <<>>
    ELSE checkPartitions(stats.Partitions, 1,
                         Threshold(g.mc.Thresholds, "warning"),
                         Threshold(g.mc.Thresholds, "critical"))

checkDiskThresholds(config, stats) ==
    LET g == GetMetricConfig(config, "disk") IN
    IF ~g.ok \/ ~g.mc.Enabled
    THEN <<>>
    ELSE checkPartitions(stats.Partitions, 1,
                         Threshold(g.mc.Thresholds, "warning"),
                         Threshold(g.mc.Thresholds, "critical"))

\* checkCPUThresholds comparing against a threshold of 0 like any other.
checkCPUThresholds_NoZeroGuard(config, cpuUsage) ==
    LET g == GetMetricConfig(config, "cpu") IN
    IF ~g.ok \/ ~g.mc.Enabled
    THEN <<>>
    ELSE LET warningThreshold == Threshold(g.mc.Thresholds, "warning")
             criticalThreshold == Threshold(g.mc.Thresholds, "critical")
         IN  IF cpuUsage > criticalThreshold
             THEN <<Violation("cpu", "critical", <<"cpu usage">>, cpuUsage)>>
             ELSE IF cpuUsage > warningThreshold
             THEN <<Violation("cpu", "warning", <<"cpu usage">>, cpuUsage)>>
             ELSE <<>>

\* checkCPUThresholds with a reading at a threshold counted as beyond it.
checkCPUThresholds_AtOrAbove(config, cpuUsage) ==
    LET g == GetMetricConfig(config, "cpu") IN
    IF ~g.ok \/ ~g.mc.Enabled
    THEN <<>>
    ELSE LET warningThreshold == Threshold(g.mc.Thresholds, "warning")
             criticalThreshold == Threshold(g.mc.Thresholds, "critical")
         IN  IF criticalThreshold > 0 /\ cpuUsage >= criticalThreshold
             THEN <<Violation("cpu", "critical", <<"cpu usage">>, cpuUsage)>>
             ELSE IF warningThreshold > 0 /\ cpuUsage >= warningThreshold
             THEN <<Violation("cpu", "warning", <<"cpu usage">>, cpuUsage)>>
             ELSE <<>>

checkCPUThresholds(config, cpuUsage) ==
    LET g == GetMetricConfig(config, "cpu") IN
    IF ~g.ok \/ ~g.mc.Enabled
    THEN <<>>
    ELSE LET warningThreshold == Threshold(g.mc.Thresholds, "warning")
             criticalThreshold == Threshold(g.mc.Thresholds, "critical")
         IN  IF criticalThreshold > 0 /\ cpuUsage > criticalThreshold
             THEN <<Violation("cpu", "critical", <<"cpu usage">>, cpuUsage)>>
             ELSE IF warningThreshold > 0 /\ cpuUsage > warningThreshold
             THEN <<Violation("cpu", "warning", <<"cpu usage">>, cpuUsage)>>
             ELSE <<>>

\* checkMemoryThresholds with an unset mode read as max_used.
checkMemoryThresholds_EmptyModeIsUsed(config, memUsed, memFree) ==
    LET g == GetMetricConfig(config, "memory") IN
    IF ~g.ok \/ ~g.mc.Enabled
    THEN <<>>
    ELSE LET mode == IF g.mc.Mode = "" THEN "max_used" ELSE g.mc.Mode
             warningThreshold == Threshold(g.mc.Thresholds, "warning")
             criticalThreshold == Threshold(g.mc.Thresholds, "critical")
         IN  IF mode = "min_free"
             THEN IF criticalThreshold > 0 /\ memFree < criticalThreshold
                  THEN <<Violation("memory", "critical", <<"free memory">>, memFree)>>
                  ELSE IF warningThreshold > 0 /\ memFree < warningThreshold
                  THEN <<Violation("memory", "warning", <<"free memory">>, memFree)>>
                  ELSE <<>>
             ELSE IF criticalThreshold > 0 /\ memUsed > criticalThreshold
                  THEN <<Violation("memory", "critical", <<"memory used">>, memUsed)>>
                  ELSE IF warningThreshold > 0 /\ memUsed > warningThreshold
                  THEN <<Violation("memory", "warning", <<"memory used">>, memUsed)>>
                  ELSE <<>>

checkMemoryThresholds(config, memUsed, memFree) ==
    LET g == GetMetricConfig(config, "memory") IN
    IF ~g.ok \/ ~g.mc.Enabled
    THEN <<>>
    ELSE LET mode == IF g.mc.Mode = "" THEN "min_free" ELSE g.mc.Mode
             warningThreshold == Threshold(g.mc.Thresholds, "warning")
             criticalThreshold == Threshold(g.mc.Thresholds, "critical")
         IN  IF mode = "min_free"
             THEN IF criticalThreshold > 0 /\ memFree < criticalThreshold
                  THEN <<Violation("memory", "critical", <<"free memory">>, memFree)>>
                  ELSE IF warningThreshold > 0 /\ memFree < warningThreshold
                  THEN <<Violation("memory", "warning", <<"free memory">>, memFree)>>
                  ELSE <<>>
             ELSE IF criticalThreshold > 0 /\ memUsed > criticalThreshold
                  THEN <<Violation("memory", "critical", <<"memory used">>, memUsed)>>
                  ELSE IF warningThreshold > 0 /\ memUsed > warningThreshold
                  THEN <<Violation("memory", "warning", <<"memory used">>, memUsed)>>
                  ELSE <<>>

\* allViolations giving up on the snapshot when the cpu or the memory
\* reading does not parse.
allViolations_AbortsOnParseError(config, stats) ==
    LET cpu == ParseFloat(stats.TotalCPUUsage)
        mem == ParseFloat(stats.MemoryPercentage)
    IN  IF cpu.err \/ mem.err
        THEN <<>>
        ELSE checkDiskThresholds(config, stats)
             \o checkCPUThresholds(config, cpu.val)
             \o checkMemoryThresholds(config, mem.val, 100 - mem.val)

\* The candidate violations of CheckAllThresholds: disk, then cpu, then memory.
allViolations(config, stats) ==
    LET cpu == ParseFloat(stats.TotalCPUUsage)
        mem == ParseFloat(stats.MemoryPercentage)
    IN  checkDiskThresholds(config, stats)
        \o (IF cpu.err THEN <<>> ELSE checkCPUThresholds(config, cpu.val))
        \o (IF mem.err THEN <<>>
            ELSE checkMemoryThresholds(config, mem.val, 100 - mem.val))

ViolationKey(v) == Key(v.Metric, v.Level)

KeysOf(violations) == {ViolationKey(violations[i]) : i \in DOMAIN violations}

(* ----------------------------- throttling ------------------------------ *)

\* The decision of applyThrottling's loop body for one violation, read from
\* its state: the call passes the minimum duration and the repeat flag only,
\* no repeat interval, and has no error result.
throttleDecision(vs, now, throttleConfig) ==
    ShouldAlert(vs, now, throttleConfig.MinDurationMinutes,
                throttleConfig.Repeat, "").alert

\* The loop body accepting a violation without marking its state.
throttleOne_AcceptsUnmarked(config, violation, acc, now) ==
    LET throttleConfig == GetThrottleConfig(config, violation.Metric)
        key == ViolationKey(violation)
        S1 == GetOrCreate(acc.States, violation.Metric, violation.Level, now)
    IN  IF throttleDecision(S1[key], now, throttleConfig)
        THEN [States |-> S1, throttled |-> Append(acc.throttled, violation)]
        ELSE [States |-> S1, throttled |-> acc.throttled]

\* One pass of applyThrottling's loop body: (States, throttled) afterwards.
throttleOne(config, violation, acc, now) ==
    LET throttleConfig == GetThrottleConfig(config, violation.Metric)
        key == ViolationKey(violation)
        S1 == GetOrCreate(acc.States, violation.Metric, violation.Level, now)
    IN  IF throttleDecision(S1[key], now, throttleConfig)
        THEN [States |-> [S1 EXCEPT ![key] = MarkAlerted(S1[key], now)],
              throttled |-> Append(acc.throttled, violation)]
        ELSE [States |-> S1, throttled |-> acc.throttled]

RECURSIVE throttleFrom(_, _, _, _, _)
throttleFrom(config, violations, i, acc, now) ==
    IF i > Len(violations)
    THEN acc
    ELSE throttleFrom(config, violations, i + 1,
                      throttleOne(config, violations[i], acc, now), now)

applyThrottling(config, violations, States, now) ==
    throttleFrom(config, violations, 1,
                 [States |-> States, throttled |-> <<>>], now)

\* clearResolvedViolations leaving the store as it is.
clearResolvedViolations_ClearsNothing(currentViolations, sm) == sm

\* clearKeys deleting the keys it is given and taking the alerted mark off
\* the states it keeps.
clearKeys_ResetsKept(sm, keys, i) ==
    [sm EXCEPT !.States =
        [k \in DOMAIN sm.States \ keys |->
            [sm.States[k] EXCEPT !.HasAlerted = FALSE, !.LastAlertTime = <<>>]]]

\* clearKeys returning after the first key it has cleared.
clearKeys_StopsAfterOne(sm, keys, i) ==
    IF \E j \in DOMAIN KeyOrder : KeyOrder[j] \in keys \cap DOMAIN sm.States
    THEN LET j == CHOOSE j \in DOMAIN KeyOrder :
                    /\ KeyOrder[j] \in keys \cap DOMAIN sm.States
                    /\ \A n \in 1 .. j - 1 : KeyOrder[n] \notin keys \cap DOMAIN sm.States
         IN  Clear(sm, sm.States[KeyOrder[j]].Metric, sm.States[KeyOrder[j]].Level)
    ELSE sm

RECURSIVE clearKeys(_, _, _)
clearKeys(sm, keys, i) ==
    IF i > Len(KeyOrder)
    THEN sm
    ELSE clearKeys(IF KeyOrder[i] \in keys /\ KeyOrder[i] \in DOMAIN sm.States
                   THEN Clear(sm, sm.States[KeyOrder[i]].Metric,
                              sm.States[KeyOrder[i]].Level)
                   ELSE sm,
                   keys, i + 1)

\* clearResolvedViolations: the manager afterwards.
clearResolvedViolations(currentViolations, sm) ==
    clearKeys(sm, DOMAIN sm.States \ KeysOf(currentViolations), 1)

SelectLevel(violations, level) ==
    SelectSeq(violations, LAMBDA v : v.Level = level)

\* CheckAllThresholds keeping the states of a metric whose reading it could
\* not parse.
CheckAllThresholds_KeepsUnread(config, stats, sm, now) ==
    LET all == allViolations(config, stats)
        unread == {m \in {"cpu"} : ParseFloat(stats.TotalCPUUsage).err}
                  \cup {m \in {"memory"} : ParseFloat(stats.MemoryPercentage).err}
        t == applyThrottling(config, all, sm.States, now)
        kept == {k \in DOMAIN t.States : t.States[k].Metric \in unread}
        c == clearKeys([sm EXCEPT !.States = t.States],
                       (DOMAIN t.States \ KeysOf(all)) \ kept, 1)
    IN  [warnings |-> SelectLevel(t.throttled, "warning"),
         criticals |-> SelectLevel(t.throttled, "critical"),
         candidates |-> all,
         saveErr |-> saveError(c.States, c.file),
         sm |-> [States |-> c.States, file |-> save(c.States, c.file),
                 writes |-> c.writes + 1]]

\* CheckAllThresholds on the manager sm = [States, file, writes] (writes
\* counts the writes of the state file): the two returned lists, the
\* candidates, the manager afterwards, and saveErr, the error that Save
\* returned and the function dropped: it has no error result.
CheckAllThresholds(config, stats, sm, now) ==
    LET all == allViolations(config, stats)
        t == applyThrottling(config, all, sm.States, now)
        c == clearResolvedViolations(all, [sm EXCEPT !.States = t.States])
    IN  [warnings |-> SelectLevel(t.throttled, "warning"),
         criticals |-> SelectLevel(t.throttled, "critical"),
         candidates |-> all,
         saveErr |-> saveError(c.States, c.file),
         sm |-> [States |-> c.States, file |-> save(c.States, c.file),
                 writes |-> c.writes + 1]]

(* ------------------------------ dispatch ------------------------------- *)

ActionTypes == {"logger", "syslog", "webhook", "script"}

\* CreateAction: (error, type of the action created)
CreateAction(actionConfig) ==
    IF "type" \notin DOMAIN actionConfig
    THEN [err |-> TRUE, type |-> ""]
    ELSE IF actionConfig["type"] \notin ActionTypes
    THEN [err |-> TRUE, type |-> ""]
    ELSE IF actionConfig["type"] = "webhook" /\ "url" \notin DOMAIN actionConfig
    THEN [err |-> TRUE, type |-> ""]
    ELSE IF actionConfig["type"] = "script" /\ "path" \notin DOMAIN actionConfig
    THEN [err |-> TRUE, type |-> ""]
    ELSE [err |-> FALSE, type |-> actionConfig["type"]]

\* executeAll handing the action the first violation only.
executeAll_FirstOnly(type, violations, failing) ==
    [i \in DOMAIN violations \cap {1} |->
        [type |-> type, violation |-> violations[i], err |-> type \in failing]]

\* The executions of one action of a chain: one per violation; failing is the
\* set of action types whose Execute returns an error in this dispatch.
executeAll(type, violations, failing) ==
    [i \in DOMAIN violations |->
        [type |-> type, violation |-> violations[i], err |-> type \in failing]]

RECURSIVE processLevel(_, _, _, _)
processLevel(actions, i, violations, failing) ==
    IF i > Len(actions)
    THEN <<>>
    ELSE LET a == CreateAction(actions[i]) IN
         (IF a.err THEN <<>> ELSE executeAll(a.type, violations, failing))
         \o processLevel(actions, i + 1, violations, failing)

\* ProcessViolations: the Execute calls made, in order, each with its result;
\* the function itself returns nothing.
ProcessViolations(config, warningViolations, criticalViolations, failing) ==
    (IF Len(criticalViolations) > 0
     THEN processLevel(GetAlertActions(config, "critical"), 1,
                       criticalViolations, failing)
     ELSE <<>>)
    \o (IF Len(warningViolations) > 0
        THEN processLevel(GetAlertActions(config, "warning"), 1,
                          warningViolations, failing)
        ELSE <<>>)

\* The CreateAction calls of one chain, each with its result.
createLevel(level, actions) ==
    [i \in DOMAIN actions |->
        [level |-> level, action |-> actions[i], err |-> CreateAction(actions[i]).err]]

\* The CreateAction calls of ProcessViolations, in order.
createCalls(config, warningViolations, criticalViolations) ==
    (IF Len(criticalViolations) > 0
     THEN createLevel("critical", GetAlertActions(config, "critical"))
     ELSE <<>>)
    \o (IF Len(warningViolations) > 0
        THEN createLevel("warning", GetAlertActions(config, "warning"))
        ELSE <<>>)

\* checkSystemStatus putting the manager and the file back as they were when
\* an Execute call fails.
checkSystemStatus_RearmOnFailure(config, stats, sm, now, failing) ==
    LET r == CheckAllThresholds(config, stats, sm, now)
        x == ProcessViolations(config, r.warnings, r.criticals, failing)
    IN  [sm |-> IF \E i \in DOMAIN x : x[i].err
                THEN [States |-> sm.States, file |-> save(sm.States, sm.file),
                      writes |-> r.sm.writes + 1]
                ELSE r.sm,
         err |-> FALSE,
         warnings |-> r.warnings,
         criticals |-> r.criticals,
         candidates |-> r.candidates,
         saveErr |-> r.saveErr,
         executions |-> x]

\* checkSystemStatus once the statistics are read: the manager afterwards,
\* the accepted violations, the candidates, the Execute calls made and
\* whether an error is returned.  CheckAllThresholds and ProcessViolations
\* have no error result, so none is.
checkSystemStatus(config, stats, sm, now, failing) ==
    LET r == CheckAllThresholds(config, stats, sm, now) IN
    [sm |-> r.sm,
     err |-> FALSE,
     warnings |-> r.warnings,
     criticals |-> r.criticals,
     candidates |-> r.candidates,
     saveErr |-> r.saveErr,
     executions |-> ProcessViolations(config, r.warnings, r.criticals, failing)]

(* ------------------------- inputs of the model ------------------------- *)

ThrottleConfig(minDurationMinutes, repeat, repeatInterval) ==
    [MinDurationMinutes |-> minDurationMinutes, Repeat |-> repeat,
     RepeatInterval |-> repeatInterval]

\* The throttle settings a run may be configured with.
ThrottleConfigs ==
    {ThrottleConfig(0, FALSE, ""), ThrottleConfig(1, FALSE, ""),
     ThrottleConfig(0, TRUE, ""), ThrottleConfig(1, TRUE, ""),
     ThrottleConfig(0, TRUE, "1m"), ThrottleConfig(0, TRUE, "invalid")}

\* DefaultConfig with its throttle settings replaced, a webhook added to the
\* critical chain.
ConfigWith(throttle) ==
    [Metrics |->
        [m \in MetricNames |->
            IF m = "disk"
            THEN [Enabled |-> TRUE, Thresholds |-> [warning |-> 80, critical |-> 90],
                  Throttle |-> throttle, Mode |-> ""]
            ELSE IF m = "cpu"
            THEN [Enabled |-> TRUE, Thresholds |-> [warning |-> 70, critical |-> 90],
                  Throttle |-> throttle, Mode |-> ""]
            ELSE [Enabled |-> TRUE, Thresholds |-> [warning |-> 20, critical |-> 5],
                  Throttle |-> throttle, Mode |-> "min_free"]],
     Alerts |->
        [l \in LevelNames |->
            IF l = "warning"
            THEN <<[type |-> "logger", level |-> "warning"]>>
            ELSE <<[type |-> "logger", level |-> "critical"],
                   [type |-> "webhook", url |-> "http://hook"]>>]]

Configs == {ConfigWith(t) : t \in ThrottleConfigs}

Partition(device, mountpoint, percentage) ==
    [Device |-> device, Mountpoint |-> mountpoint, Fstype |-> "ext4",
     Percentage |-> percentage]

CPUReadings == {<<"n", "/", "a">>, <<"5", "0">>, <<"7", "5">>, <<"9", "5">>}

MemoryReadings == {<<"5", "0">>, <<"9", "7">>}

PartitionLists ==
    {<<>>,
     <<Partition("/dev/sda1", "/", <<"8", "5">>)>>,
     <<Partition("/dev/sda1", "/", <<"8", "5">>), Partition("/dev/sdb1", "/data", <<"8", "6">>)>>,
     <<Partition("/dev/sda1", "/", <<"9", "5">>)>>}

Stats(cpu, memory, partitions) ==
    [TotalCPUUsage |-> cpu, MemoryPercentage |-> memory, Partitions |-> partitions]

\* A reading below every threshold.
Quiet == <<"5", "0">>

\* Snapshots with a reading that does not parse next to one in violation:
\* cpu unreadable with memory critical, and an unreadable partition before a
\* partition above the critical threshold.
MalformedStats ==
    {Stats(<<"n", "/", "a">>, <<"9", "7">>, <<>>),
     Stats(Quiet, Quiet, <<Partition("/dev/sda1", "/", <<"n", "/", "a">>),
                           Partition("/dev/sdb1", "/data", <<"9", "5">>)>>)}

\* The snapshots GetSystemStats may return: each metric alone over its
\* readings, and two snapshots with several metrics in violation.
StatsInputs ==
    {Stats(c, Quiet, <<>>) : c \in CPUReadings}
    \cup {Stats(Quiet, m, <<>>) : m \in MemoryReadings}
    \cup {Stats(Quiet, Quiet, p) : p \in PartitionLists}
    \cup {Stats(<<"7", "5">>, Quiet, <<Partition("/dev/sda1", "/", <<"8", "5">>)>>),
          Stats(<<"9", "5">>, <<"9", "7">>, <<Partition("/dev/sda1", "/", <<"9", "5">>)>>)}
    \cup MalformedStats

\* The sets of action types whose Execute may fail in one dispatch.
FailingSets == {{}, {"logger"}}

(* ------------------------------- state --------------------------------- *)

VARIABLES
    clock,      \* time.Now().Unix()
    config,     \* the loaded configuration
    States,     \* StateManager.States of the running process
    file,       \* the state file
    pc,         \* per handler goroutine: where it is in its cycle
    loc,        \* per handler goroutine: the locals of its cycle
    last,       \* what the last evaluation cycle run alone did
    accepts,    \* per key: accepted violations in the current episode
    undelivered,\* keys accepted in the current episode whose dispatch failed
    carried,    \* keys alerted before the last start of the process
    eval,       \* the last evaluation of a snapshot
    dispatch,   \* the last dispatch on its own
    act         \* one alert action and its Execute call, on its own

vars ==
    <<clock, config, States, file, pc, loc, last, accepts, undelivered, carried,
      eval, dispatch, act>>

\* No alert action is being looked at.
NoAct == [kind |-> "none"]

NoEval == [ran |-> FALSE, stats |-> <<>>, violations |-> <<>>]

NoDispatch ==
    [ran |-> FALSE, warnings |-> <<>>, criticals |-> <<>>, failing |-> {},
     created |-> <<>>, executions |-> <<>>, err |-> FALSE]

\* The goroutines net/http runs the "/" handler on.
Handlers == {"h1", "h2"}

NoLocal ==
    [violations |-> <<>>, i |-> 0, throttled |-> <<>>, keysToClear |-> {},
     data |-> <<>>]

NoCycle ==
    [ran |-> FALSE, now |-> 0, candidates |-> {}, fresh |-> {}, accepted |-> <<>>,
     failed |-> FALSE, saveErr |-> FALSE, err |-> FALSE, cleared |-> {},
     returned |-> {}]

Min(a, b) == IF a < b THEN a ELSE b

Count(keys, k) == Cardinality({i \in DOMAIN keys : keys[i] = k})

KeySeq(violations) == [i \in DOMAIN violations |-> ViolationKey(violations[i])]

Init ==
    /\ clock = 0
    /\ config \in Configs
    /\ file = NoFile
    /\ States = NewStateManager(NoFile).States
    /\ pc = [h \in Handlers |-> "idle"]
    /\ loc = [h \in Handlers |-> NoLocal]
    /\ last = NoCycle
    /\ accepts = [k \in AllKeys |-> 0]
    /\ undelivered = {}
    /\ carried = {}
    /\ eval = NoEval
    /\ dispatch = NoDispatch
    /\ act = NoAct

\* Time passes.
Tick ==
    /\ \E d \in TickSteps :
        /\ clock + d <= MaxClock
        /\ clock' = clock + d
    /\ UNCHANGED <<act, eval, dispatch, config, States, file, pc, loc, last, accepts,
                   undelivered, carried>>

\* One evaluation cycle: runCLI's or the "/" handler's call of
\* checkSystemStatus, run alone.  With track, the cycle also records the
\* snapshot it read, the keys whose state it cleared, and those of its
\* candidates whose state the cycle before had cleared.
CycleOf(track) ==
    \E stats \in StatsInputs, failing \in FailingSets :
    \E r \in {checkSystemStatus(config, stats,
                  [States |-> States, file |-> file, writes |-> 0], clock, failing)} :
    \E acc \in {KeySeq(r.criticals \o r.warnings)}, cands \in {KeysOf(r.candidates)},
       failed \in {\E i \in DOMAIN r.executions : r.executions[i].err} :
        /\ States' = r.sm.States
        /\ file' = r.sm.file
        /\ last' = [ran |-> TRUE, now |-> clock, candidates |-> cands,
                    fresh |-> cands \ last.candidates,
                    accepted |-> acc, failed |-> failed, saveErr |-> r.saveErr,
                    err |-> r.err,
                    cleared |-> IF track
                                THEN (DOMAIN States \cup cands) \ DOMAIN r.sm.States
                                ELSE {},
                    returned |-> IF track THEN cands \cap last.cleared ELSE {}]
        /\ accepts' = [k \in AllKeys |->
                          IF k \in cands
                          THEN Min(accepts[k] + Count(acc, k), AcceptCap)
                          ELSE 0]
        /\ undelivered' = (undelivered \cap cands)
                          \cup (IF failed THEN {acc[i] : i \in DOMAIN acc} ELSE {})
        /\ carried' = carried \cap cands
        /\ eval' = IF track
                   THEN [ran |-> TRUE, stats |-> stats, violations |-> r.candidates]
                   ELSE eval
        /\ UNCHANGED <<act, dispatch, clock, config, pc, loc>>

Cycle == CycleOf(FALSE)

\* The process ends and a new one starts: NewStateManager loads the file.
Restart ==
    /\ ~NewStateManager(file).err
    /\ States' = NewStateManager(file).States
    /\ carried' = {k \in AllKeys : accepts[k] > 0}
    /\ last' = [last EXCEPT !.ran = FALSE]
    /\ UNCHANGED <<act, eval, dispatch, clock, config, file, pc, loc, accepts, undelivered>>

Next == Tick \/ Cycle \/ Restart

Spec == Init /\ [][Next]_vars

(* ------------------ the cycles with their effect on the store --------- *)

\* A first alert only, a repeat at every cycle, and a minimum duration.
StoreConfigs ==
    {ConfigWith(ThrottleConfig(0, FALSE, "")), ConfigWith(ThrottleConfig(0, TRUE, "")),
     ConfigWith(ThrottleConfig(1, TRUE, ""))}

InitStore ==
    /\ clock = 0
    /\ config \in StoreConfigs
    /\ file = NoFile
    /\ States = NewStateManager(NoFile).States
    /\ pc = [h \in Handlers |-> "idle"]
    /\ loc = [h \in Handlers |-> NoLocal]
    /\ last = NoCycle
    /\ accepts = [k \in AllKeys |-> 0]
    /\ undelivered = {}
    /\ carried = {}
    /\ eval = NoEval
    /\ dispatch = NoDispatch
    /\ act = NoAct

CycleTracked == CycleOf(TRUE)

NextStore == Tick \/ CycleTracked \/ Restart

SpecStore == InitStore /\ [][NextStore]_vars

(* ------------------- a state file that cannot be written --------------- *)

\* The cycles of Spec with a state file that cannot be opened for writing.
WriteFailsConfigs ==
    {ConfigWith(ThrottleConfig(0, FALSE, "")), ConfigWith(ThrottleConfig(1, TRUE, ""))}

InitWriteFails ==
    /\ clock = 0
    /\ config \in WriteFailsConfigs
    /\ file = [NoFile EXCEPT !.ro = TRUE]
    /\ States = NewStateManager(NoFile).States
    /\ pc = [h \in Handlers |-> "idle"]
    /\ loc = [h \in Handlers |-> NoLocal]
    /\ last = NoCycle
    /\ accepts = [k \in AllKeys |-> 0]
    /\ undelivered = {}
    /\ carried = {}
    /\ eval = NoEval
    /\ dispatch = NoDispatch
    /\ act = NoAct

SpecWriteFails == InitWriteFails /\ [][Next]_vars

(* ------------------- concurrent handlers and crashes ------------------- *)

\* runServer: net/http runs each request to "/" on its own goroutine, and all
\* of them call checkSystemStatus on the one stateManager, with no lock.  A
\* handler's cycle is a sequence of steps that other handlers' steps may come
\* between; the process may die between any two steps.  pc[h] is "idle",
\* "throttle" (in applyThrottling's loop, before GetOrCreate), "mark" (after
\* ShouldAlert returned true), "collect" (entering clearResolvedViolations),
\* "clear" (in its last loop, or before Save), "clearwrite" and "savewrite"
\* (in os.WriteFile, the file opened and truncated, the data not yet
\* written), "dispatch" or "down".

ConcConfigs ==
    {ConfigWith(ThrottleConfig(0, FALSE, "")), ConfigWith(ThrottleConfig(0, TRUE, ""))}

ConcStats ==
    {Stats(Quiet, Quiet, <<>>),
     Stats(<<"7", "5">>, Quiet, <<>>),
     Stats(<<"7", "5">>, Quiet, <<Partition("/dev/sda1", "/", <<"8", "5">>)>>)}

InitConc ==
    /\ clock = 0
    /\ config \in ConcConfigs
    /\ file = NoFile
    /\ States = NewStateManager(NoFile).States
    /\ pc = [h \in Handlers |-> "idle"]
    /\ loc = [h \in Handlers |-> NoLocal]
    /\ last = NoCycle
    /\ accepts = [k \in AllKeys |-> 0]
    /\ undelivered = {}
    /\ carried = {}
    /\ eval = NoEval
    /\ dispatch = NoDispatch
    /\ act = NoAct

\* The loop handing over to the dispatch as soon as it ends, ahead of
\* clearResolvedViolations and Save.
AfterLoop_DispatchEarly(l) == IF l.i > Len(l.violations) THEN "dispatch" ELSE "throttle"

\* Where applyThrottling's loop goes next.
AfterLoop(l) == IF l.i > Len(l.violations) THEN "collect" ELSE "throttle"

\* The handler reads the statistics and CheckAllThresholds collects the
\* candidates.
HBegin(h) ==
    /\ pc[h] = "idle"
    /\ \E stats \in ConcStats :
        \E l \in {[NoLocal EXCEPT !.violations = allViolations(config, stats),
                                  !.i = 1]} :
            /\ loc' = [loc EXCEPT ![h] = l]
            /\ pc' = [pc EXCEPT ![h] = AfterLoop(l)]
    /\ UNCHANGED <<act, eval, dispatch, clock, config, States, file, last, accepts, undelivered, carried>>

\* applyThrottling's loop body up to the test: GetOrCreate and ShouldAlert.
HDecide(h) ==
    /\ pc[h] = "throttle"
    /\ \E violation \in {loc[h].violations[loc[h].i]} :
       \E S1 \in {GetOrCreate(States, violation.Metric, violation.Level, clock)} :
            /\ States' = S1
            /\ IF throttleDecision(S1[ViolationKey(violation)], clock,
                                   GetThrottleConfig(config, violation.Metric))
               THEN /\ pc' = [pc EXCEPT ![h] = "mark"]
                    /\ loc' = loc
               ELSE /\ loc' = [loc EXCEPT ![h].i = @ + 1]
                    /\ pc' = [pc EXCEPT ![h] = AfterLoop(loc'[h])]
    /\ UNCHANGED <<act, eval, dispatch, clock, config, file, last, accepts, undelivered, carried>>

\* applyThrottling's loop body after the test: the violation is appended to
\* throttled and MarkAlerted runs on the state GetOrCreate returned, which is
\* no longer in the map if another handler has cleared the key meanwhile.
HMark(h) ==
    /\ pc[h] = "mark"
    /\ \E violation \in {loc[h].violations[loc[h].i]} :
       \E key \in {ViolationKey(violation)} :
            /\ States' = IF key \in DOMAIN States
                         THEN [States EXCEPT ![key] = MarkAlerted(@, clock)]
                         ELSE States
            /\ loc' = [loc EXCEPT ![h].throttled = Append(@, violation),
                                  ![h].i = @ + 1]
            /\ pc' = [pc EXCEPT ![h] = AfterLoop(loc'[h])]
            /\ accepts' = [accepts EXCEPT ![key] = Min(@ + 1, AcceptCap)]
    /\ UNCHANGED <<act, eval, dispatch, clock, config, file, last, undelivered, carried>>

\* clearResolvedViolations, its first two loops: the keys of the map that
\* are not among the current violations.
HCollect(h) ==
    /\ pc[h] = "collect"
    /\ loc' = [loc EXCEPT ![h].keysToClear = DOMAIN States \ KeysOf(loc[h].violations)]
    /\ pc' = [pc EXCEPT ![h] = "clear"]
    /\ UNCHANGED <<act, eval, dispatch, clock, config, States, file, last, accepts, undelivered, carried>>

\* clearResolvedViolations, one pass of its last loop, up to the middle of
\* Clear's save: the key, if it is still in the map, is deleted, the map
\* marshalled and the file opened and truncated.
HClearOne(h) ==
    /\ pc[h] = "clear"
    /\ \E key \in loc[h].keysToClear :
        IF key \in DOMAIN States
        THEN \E rest \in {[k \in DOMAIN States \ {key} |-> States[k]]} :
                /\ States' = rest
                /\ loc' = [loc EXCEPT ![h].keysToClear = @ \ {key},
                                      ![h].data = Marshal(rest)]
                /\ file' = OpenTrunc(file)
                /\ accepts' = [accepts EXCEPT ![key] = 0]
                /\ carried' = carried \ {key}
                /\ pc' = [pc EXCEPT ![h] = "clearwrite"]
        ELSE /\ loc' = [loc EXCEPT ![h].keysToClear = @ \ {key}]
             /\ UNCHANGED <<States, file, accepts, carried, pc>>
    /\ UNCHANGED <<act, eval, dispatch, clock, config, last, undelivered>>

\* The rest of that save: the marshalled data is written.
HClearWrite(h) ==
    /\ pc[h] = "clearwrite"
    /\ file' = WriteAt0(file, loc[h].data)
    /\ loc' = [loc EXCEPT ![h].data = <<>>]
    /\ pc' = [pc EXCEPT ![h] = "clear"]
    /\ UNCHANGED <<act, eval, dispatch, clock, config, States, last, accepts, undelivered, carried>>

\* CheckAllThresholds' Save up to the middle: the map is marshalled and the
\* file opened and truncated.
HSaveOpen(h) ==
    /\ pc[h] = "clear"
    /\ loc[h].keysToClear = {}
    /\ loc' = [loc EXCEPT ![h].data = Marshal(States)]
    /\ file' = OpenTrunc(file)
    /\ pc' = [pc EXCEPT ![h] = "savewrite"]
    /\ UNCHANGED <<act, eval, dispatch, clock, config, States, last, accepts, undelivered, carried>>

\* The rest of Save: the marshalled data is written.
HSaveWrite(h) ==
    /\ pc[h] = "savewrite"
    /\ file' = WriteAt0(file, loc[h].data)
    /\ loc' = [loc EXCEPT ![h].data = <<>>]
    /\ pc' = [pc EXCEPT ![h] = "dispatch"]
    /\ UNCHANGED <<act, eval, dispatch, clock, config, States, last, accepts, undelivered, carried>>

\* ProcessViolations on the accepted violations, and the response.
HDispatch(h) ==
    /\ pc[h] = "dispatch"
    /\ Len(ProcessViolations(config, SelectLevel(loc[h].throttled, "warning"),
                             SelectLevel(loc[h].throttled, "critical"), {})) >= 0
    /\ loc' = [loc EXCEPT ![h] = NoLocal]
    /\ pc' = [pc EXCEPT ![h] = "idle"]
    /\ UNCHANGED <<act, eval, dispatch, clock, config, States, file, last, accepts, undelivered, carried>>

\* The process dies: its memory is lost, the file stays as it is.
Crash ==
    /\ \A h \in Handlers : pc[h] # "down"
    /\ pc' = [h \in Handlers |-> "down"]
    /\ loc' = [h \in Handlers |-> NoLocal]
    /\ States' = EmptyStates
    /\ carried' = {k \in AllKeys : accepts[k] > 0}
    /\ UNCHANGED <<act, eval, dispatch, clock, config, file, last, accepts, undelivered>>

\* runServer starts again; it gives up when NewStateManager returns an error.
Start ==
    /\ \A h \in Handlers : pc[h] = "down"
    /\ ~NewStateManager(file).err
    /\ States' = NewStateManager(file).States
    /\ pc' = [h \in Handlers |-> "idle"]
    /\ UNCHANGED <<act, eval, dispatch, clock, config, file, loc, last, accepts, undelivered, carried>>

NextConc ==
    \/ \E h \in Handlers : HBegin(h)
    \/ \E h \in Handlers : HDecide(h)
    \/ \E h \in Handlers : HMark(h)
    \/ \E h \in Handlers : HCollect(h)
    \/ \E h \in Handlers : HClearOne(h)
    \/ \E h \in Handlers : HClearWrite(h)
    \/ \E h \in Handlers : HSaveOpen(h)
    \/ \E h \in Handlers : HSaveWrite(h)
    \/ \E h \in Handlers : HDispatch(h)
    \/ Crash
    \/ Start

SpecConc == InitConc /\ [][NextConc]_vars

(* ----------------------- the evaluator on its own ---------------------- *)

\* A metric's policy; Present is FALSE for a metric the configuration does
\* not name.
Policy(present, enabled, thresholds, mode) ==
    [Present |-> present, Enabled |-> enabled, Thresholds |-> thresholds, Mode |-> mode]

\* Threshold maps: both severities, one of them 0, one of them absent, none.
UpperThresholds ==
    {[warning |-> 70, critical |-> 90], [warning |-> 0, critical |-> 90],
     [warning |-> 70, critical |-> 0], [critical |-> 90], [warning |-> 70]}

FreeThresholds ==
    {[warning |-> 20, critical |-> 5], [warning |-> 0, critical |-> 5],
     [warning |-> 20, critical |-> 0], [critical |-> 5]}

AbsentPolicy == Policy(FALSE, FALSE, [warning |-> 0, critical |-> 0], "")

CPUPolicies ==
    {Policy(TRUE, TRUE, t, "") : t \in UpperThresholds}
    \cup {Policy(TRUE, FALSE, [warning |-> 70, critical |-> 90], ""), AbsentPolicy}

DiskPolicies ==
    {Policy(TRUE, TRUE, t, "") : t \in UpperThresholds}
    \cup {Policy(TRUE, FALSE, [warning |-> 70, critical |-> 90], ""), AbsentPolicy}

MemoryPolicies ==
    {Policy(TRUE, TRUE, t, m) : t \in FreeThresholds, m \in {"", "min_free"}}
    \cup {Policy(TRUE, TRUE, t, "max_used") : t \in UpperThresholds}
    \cup {Policy(TRUE, TRUE, [warning |-> 20, critical |-> 5], "max_used"),
          Policy(TRUE, FALSE, [warning |-> 20, critical |-> 5], "min_free"),
          AbsentPolicy}

\* The configuration with these policies for cpu, disk and memory.
ConfigOf(cpu, disk, memory) ==
    LET policy == [m \in MetricNames |->
                      IF m = "cpu" THEN cpu ELSE IF m = "disk" THEN disk ELSE memory]
    IN  [Metrics |->
            [m \in {n \in MetricNames : policy[n].Present} |->
                [Enabled |-> policy[m].Enabled, Thresholds |-> policy[m].Thresholds,
                 Throttle |-> ThrottleConfig(0, FALSE, ""), Mode |-> policy[m].Mode]],
         Alerts |-> ConfigWith(ThrottleConfig(0, FALSE, "")).Alerts]

\* The policies of DefaultConfig.
DefaultUpper == Policy(TRUE, TRUE, [warning |-> 70, critical |-> 90], "")

DefaultFree == Policy(TRUE, TRUE, [warning |-> 20, critical |-> 5], "min_free")

\* The exclude section of the disk metric in the configuration document:
\* patterns for devices, filesystem types and mountpoints.
ExcludeConfig(devices, filesystems, mountpoints) ==
    [Devices |-> devices, Filesystems |-> filesystems, Mountpoints |-> mountpoints]

NoExclude == ExcludeConfig({}, {}, {})

\* Glob matching of the patterns used here, as the names of the partitions
\* below that each pattern matches.
GlobTable ==
    [p \in {"/dev/cd*", "tmpfs", "/dev*", "/sys/*"} |->
        IF p = "/dev/cd*" THEN {"/dev/cd0"}
        ELSE IF p = "tmpfs" THEN {"tmpfs"}
        ELSE IF p = "/dev*" THEN {"/dev"}
        ELSE {"/sys/fs"}]

matchAny(patterns, name) == \E p \in patterns : name \in GlobTable[p]

\* isPartitionExcludedByConfig: any match on the device, the filesystem
\* type or the mountpoint excludes the partition.
isPartitionExcludedByConfig(part, exclude) ==
    \/ matchAny(exclude.Devices, part.Device)
    \/ matchAny(exclude.Filesystems, part.Fstype)
    \/ matchAny(exclude.Mountpoints, part.Mountpoint)

ExcludeConfigs ==
    {ExcludeConfig({"/dev/cd*"}, {}, {}),
     ExcludeConfig({}, {"tmpfs"}, {}),
     ExcludeConfig({}, {}, {"/dev*", "/sys/*"})}

\* The default configuration loaded from a document whose disk metric has
\* this exclude section.  MetricConfig has no field that receives the
\* section; it is carried here next to the fields the program reads so that
\* a property can name it, and no definition of the program reads it.
ExcludingConfig(exclude) ==
    LET c == ConfigOf(DefaultUpper, DefaultUpper, DefaultFree)
        d == c.Metrics["disk"]
    IN  [c EXCEPT !.Metrics =
            [m \in DOMAIN c.Metrics |->
                IF m = "disk"
                THEN [Enabled |-> d.Enabled, Thresholds |-> d.Thresholds,
                      Throttle |-> d.Throttle, Mode |-> d.Mode, Exclude |-> exclude]
                ELSE c.Metrics[m]]]

PartitionOn(device, mountpoint, fstype, percentage) ==
    [Device |-> device, Mountpoint |-> mountpoint, Fstype |-> fstype,
     Percentage |-> percentage]

\* A root disk next to an optical drive, a tmpfs and a device directory,
\* all above the critical threshold, and the same with the root disk quiet.
PseudoPartitionLists ==
    {<<PartitionOn("/dev/sda1", "/", "ext4", r),
       PartitionOn("/dev/cd0", "/mnt/cdrom", "iso9660", <<"1", "0", "0">>),
       PartitionOn("shm", "/run/shm", "tmpfs", <<"9", "5">>),
       PartitionOn("udev", "/dev", "devtmpfs", <<"9", "6">>)>> :
        r \in {<<"5", "0">>, <<"9", "5">>}}

\* The configurations evaluated: each metric's policy varied with the other
\* two at their defaults, and the configuration that names no metric.
EvalConfigs ==
    {ConfigOf(c, DefaultUpper, DefaultFree) : c \in CPUPolicies}
    \cup {ConfigOf(DefaultUpper, d, DefaultFree) : d \in DiskPolicies}
    \cup {ConfigOf(DefaultUpper, DefaultUpper, m) : m \in MemoryPolicies}
    \cup {ConfigOf(AbsentPolicy, AbsentPolicy, AbsentPolicy)}
    \cup {ExcludingConfig(e) : e \in ExcludeConfigs}

\* Readings at, between and beyond the thresholds, and one that does not parse.
EvalReadings ==
    {<<"n", "/", "a">>, <<"0">>, <<"5", "0">>, <<"7", "0">>, <<"8", "0">>, <<"8", "5">>,
     <<"9", "0">>, <<"9", "5">>, <<"9", "6">>, <<"1", "0", "0">>}

EvalPartitionLists ==
    {<<Partition("/dev/sda1", "/", r)>> : r \in EvalReadings}
    \cup {<<Partition("/dev/sda1", "/", <<"8", "5">>),
            Partition("/dev/sdb1", "/data", <<"9", "5">>),
            Partition("/dev/sdc1", "/home", <<"5", "0">>)>>}

EvalStats ==
    {Stats(c, Quiet, <<>>) : c \in EvalReadings}
    \cup {Stats(Quiet, m, <<>>) : m \in EvalReadings}
    \cup {Stats(Quiet, Quiet, p) : p \in EvalPartitionLists}
    \cup {Stats(<<"9", "5">>, <<"9", "6">>, <<Partition("/dev/sda1", "/", <<"9", "5">>)>>)}
    \cup {Stats(Quiet, Quiet, p) : p \in PseudoPartitionLists}

InitEval ==
    /\ clock = 0
    /\ config \in EvalConfigs
    /\ file = NoFile
    /\ States = NewStateManager(NoFile).States
    /\ pc = [h \in Handlers |-> "idle"]
    /\ loc = [h \in Handlers |-> NoLocal]
    /\ last = NoCycle
    /\ accepts = [k \in AllKeys |-> 0]
    /\ undelivered = {}
    /\ carried = {}
    /\ eval = NoEval
    /\ dispatch = NoDispatch
    /\ act = NoAct

\* CheckAllThresholds up to applyThrottling: the candidates of one snapshot.
Evaluate ==
    /\ \E stats \in EvalStats :
        eval' = [ran |-> TRUE, stats |-> stats, violations |-> allViolations(config, stats)]
    /\ UNCHANGED <<clock, config, States, file, pc, loc, last, accepts, undelivered,
                   carried, dispatch, act>>

NextEval == Evaluate

SpecEval == InitEval /\ [][NextEval]_vars

(* ------------------ ProcessViolations on accepted lists ------------------ *)

\* Alert chains: the default ones, a critical chain whose second action
\* cannot be constructed (a webhook without url) and a warning chain of an
\* unknown type then a logger, and a configuration with no warning chain.
DispatchAlerts ==
    {ConfigWith(ThrottleConfig(0, FALSE, "")).Alerts,
     [warning |-> <<[type |-> "pager"], [type |-> "logger", level |-> "warning"]>>,
      critical |-> <<[type |-> "logger", level |-> "critical"],
                     [type |-> "webhook"],
                     [type |-> "syslog"]>>],
     [critical |-> <<[type |-> "logger", level |-> "critical"],
                     [type |-> "webhook", url |-> "http://hook"]>>]}

DispatchConfigs ==
    {[ConfigWith(ThrottleConfig(0, FALSE, "")) EXCEPT !.Alerts = a] : a \in DispatchAlerts}

\* Accepted lists of one severity: none, one (of either metric) or two violations.
AcceptedLists(level) ==
    {<<>>,
     <<Violation("disk", level, <<"/dev/sda1", "/">>, 95)>>,
     <<Violation("cpu", level, <<"cpu usage">>, 96)>>,
     <<Violation("disk", level, <<"/dev/sda1", "/">>, 95),
       Violation("cpu", level, <<"cpu usage">>, 96)>>}

\* The action types whose Execute fails during one dispatch.
DispatchFailingSets == {{}, {"logger"}, {"webhook"}, {"logger", "syslog"}}

InitDispatch ==
    /\ clock = 0
    /\ config \in DispatchConfigs
    /\ file = NoFile
    /\ States = NewStateManager(NoFile).States
    /\ pc = [h \in Handlers |-> "idle"]
    /\ loc = [h \in Handlers |-> NoLocal]
    /\ last = NoCycle
    /\ accepts = [k \in AllKeys |-> 0]
    /\ undelivered = {}
    /\ carried = {}
    /\ eval = NoEval
    /\ dispatch = NoDispatch
    /\ act = NoAct

\* One call of ProcessViolations; it has no result, so no error comes back.
Dispatch ==
    /\ \E warningViolations \in AcceptedLists("warning"),
          criticalViolations \in AcceptedLists("critical"),
          failing \in DispatchFailingSets :
        dispatch' =
            [ran |-> TRUE, warnings |-> warningViolations,
             criticals |-> criticalViolations, failing |-> failing,
             created |-> createCalls(config, warningViolations, criticalViolations),
             executions |-> ProcessViolations(config, warningViolations,
                                              criticalViolations, failing),
             err |-> FALSE]
    /\ UNCHANGED <<clock, config, States, file, pc, loc, last, accepts, undelivered,
                   carried, eval, act>>

NextDispatch == Dispatch

SpecDispatch == InitDispatch /\ [][NextDispatch]_vars

(* ------------------------ WebhookAction.Execute ------------------------- *)

MaxRetry == 3

\* WebhookAction.Retry: int(retry) of the configuration, 1 when none is given;
\* the constructor takes zero and negative numbers as they are.
WebhookRetries == -1 .. MaxRetry

\* What one client.Post comes to: a transport error, or a response status.
Outcome(transport, status) == [transport |-> transport, status |-> status]

PostOutcomes ==
    {Outcome(TRUE, 0)} \cup {Outcome(FALSE, n) : n \in {200, 201, 299, 300, 404, 500}}

\* lastError before any attempt.
NilError == Outcome(FALSE, 0)

\* The test on resp.StatusCode that counts as delivered, read as 200 only.
StatusOK_Only200(status) == status = 200

\* The test on resp.StatusCode that counts as delivered.
StatusOK(status) == status >= 200 /\ status < 300

\* A WebhookAction about to Execute: no attempt made yet.
InitWebhook ==
    /\ clock = 0
    /\ config \in DispatchConfigs
    /\ file = NoFile
    /\ States = NewStateManager(NoFile).States
    /\ pc = [h \in Handlers |-> "idle"]
    /\ loc = [h \in Handlers |-> NoLocal]
    /\ last = NoCycle
    /\ accepts = [k \in AllKeys |-> 0]
    /\ undelivered = {}
    /\ carried = {}
    /\ eval = NoEval
    /\ dispatch = NoDispatch
    /\ \E retry \in WebhookRetries :
        act = [kind |-> "webhook", Retry |-> retry, attempt |-> 0, outcomes |-> <<>>,
               lastError |-> NilError, done |-> FALSE, err |-> FALSE,
               wrapped |-> NilError]

\* One pass of the loop: a POST and what is done with its outcome.
WebhookPost ==
    /\ act.kind = "webhook"
    /\ ~act.done
    /\ act.attempt < act.Retry
    /\ \E o \in PostOutcomes :
        act' = IF ~o.transport /\ StatusOK(o.status)
               THEN [act EXCEPT !.attempt = @ + 1, !.outcomes = Append(@, o),
                                !.done = TRUE, !.err = FALSE]
               ELSE [act EXCEPT !.attempt = @ + 1, !.outcomes = Append(@, o),
                                !.lastError = o]
    /\ UNCHANGED <<clock, config, States, file, pc, loc, last, accepts, undelivered,
                   carried, eval, dispatch>>

\* The loop is over without a delivery and Execute returns lastError as it
\* is, which is nil when no attempt was made.
WebhookGiveUp_ReturnsLastError ==
    /\ act.kind = "webhook"
    /\ ~act.done
    /\ act.attempt >= act.Retry
    /\ act' = [act EXCEPT !.done = TRUE, !.err = (act.lastError # NilError),
                          !.wrapped = act.lastError]
    /\ UNCHANGED <<clock, config, States, file, pc, loc, last, accepts, undelivered,
                   carried, eval, dispatch>>

\* The loop is over without a delivery: the error wrapping lastError.
WebhookGiveUp ==
    /\ act.kind = "webhook"
    /\ ~act.done
    /\ act.attempt >= act.Retry
    /\ act' = [act EXCEPT !.done = TRUE, !.err = TRUE, !.wrapped = act.lastError]
    /\ UNCHANGED <<clock, config, States, file, pc, loc, last, accepts, undelivered,
                   carried, eval, dispatch>>

NextWebhook == WebhookPost \/ WebhookGiveUp

SpecWebhook == InitWebhook /\ [][NextWebhook]_vars

(* ------------------------- ScriptAction.Execute -------------------------- *)

MaxTimeout == 3

\* ScriptAction.Timeout, in seconds.
ScriptTimeouts == 1 .. MaxTimeout

\* What cmd.Run comes to when it ends by itself: exit status 0, another exit
\* status, or the process could not be started.
RunResults == {"exit0", "exitN", "startfail"}

\* The done case of the select: the error of cmd.Run wrapped, or nil.
onDone(a) == [a EXCEPT !.returned = TRUE,
                       !.err = IF a.proc = "exit0" THEN "nil" ELSE "failed"]

\* The timer case of the select returning without cmd.Process.Kill().
onTimeout_NoKill(a) == [a EXCEPT !.returned = TRUE, !.err = "timeout"]

\* The timer case of the select: cmd.Process.Kill() and the timeout error.
onTimeout(a) ==
    [a EXCEPT !.proc = IF @ = "running" THEN "killed" ELSE @,
              !.returned = TRUE, !.err = "timeout"]

\* A ScriptAction whose Execute has started the process and waits in select.
InitScript ==
    /\ clock = 0
    /\ config \in DispatchConfigs
    /\ file = NoFile
    /\ States = NewStateManager(NoFile).States
    /\ pc = [h \in Handlers |-> "idle"]
    /\ loc = [h \in Handlers |-> NoLocal]
    /\ last = NoCycle
    /\ accepts = [k \in AllKeys |-> 0]
    /\ undelivered = {}
    /\ carried = {}
    /\ eval = NoEval
    /\ dispatch = NoDispatch
    /\ \E timeout \in ScriptTimeouts :
        act = [kind |-> "script", Timeout |-> timeout, elapsed |-> 0,
               proc |-> "running", finishedAt |-> 0, returned |-> FALSE,
               err |-> "nil"]

\* A second passes while the process runs and the timer has not fired.
ScriptTick ==
    /\ act.kind = "script"
    /\ ~act.returned
    /\ act.proc = "running"
    /\ act.elapsed < act.Timeout
    /\ act' = [act EXCEPT !.elapsed = @ + 1]
    /\ UNCHANGED <<clock, config, States, file, pc, loc, last, accepts, undelivered,
                   carried, eval, dispatch>>

\* The process ends by itself and cmd.Run's result is sent on done.
ScriptFinish ==
    /\ act.kind = "script"
    /\ ~act.returned
    /\ act.proc = "running"
    /\ \E r \in RunResults :
        act' = [act EXCEPT !.proc = r, !.finishedAt = act.elapsed]
    /\ UNCHANGED <<clock, config, States, file, pc, loc, last, accepts, undelivered,
                   carried, eval, dispatch>>

\* select takes the done case.
ScriptReturnDone ==
    /\ act.kind = "script"
    /\ ~act.returned
    /\ act.proc \in RunResults
    /\ act' = onDone(act)
    /\ UNCHANGED <<clock, config, States, file, pc, loc, last, accepts, undelivered,
                   carried, eval, dispatch>>

\* select takes the timer case; when both cases are ready either is taken.
ScriptReturnTimeout ==
    /\ act.kind = "script"
    /\ ~act.returned
    /\ act.elapsed >= act.Timeout
    /\ act' = onTimeout(act)
    /\ UNCHANGED <<clock, config, States, file, pc, loc, last, accepts, undelivered,
                   carried, eval, dispatch>>

NextScript == ScriptTick \/ ScriptFinish \/ ScriptReturnDone \/ ScriptReturnTimeout

SpecScript == InitScript /\ [][NextScript]_vars

(* ------------------------------ CreateAction ------------------------------ *)

\* The type tags validateAlertLevel lets through, and one it does not.
TypeTags == {"logger", "syslog", "webhook", "script", "stdout", "pager"}

\* Action configurations: any of the fields type, url, path, level and tag,
\* with each of the type tags.
ActionConfigs ==
    {[f \in fields |->
        IF f = "type" THEN tag
        ELSE IF f = "url" THEN "http://hook"
        ELSE IF f = "path" THEN "/usr/local/bin/alert"
        ELSE IF f = "level" THEN "critical"
        ELSE "ALERT"] :
        fields \in SUBSET {"type", "url", "path", "level", "tag"}, tag \in TypeTags}

InitCreate ==
    /\ clock = 0
    /\ config = ConfigWith(ThrottleConfig(0, FALSE, ""))
    /\ file = NoFile
    /\ States = NewStateManager(NoFile).States
    /\ pc = [h \in Handlers |-> "idle"]
    /\ loc = [h \in Handlers |-> NoLocal]
    /\ last = NoCycle
    /\ accepts = [k \in AllKeys |-> 0]
    /\ undelivered = {}
    /\ carried = {}
    /\ eval = NoEval
    /\ dispatch = NoDispatch
    /\ act = NoAct

\* One call of CreateAction.
Create ==
    /\ \E actionConfig \in ActionConfigs :
        act' = [kind |-> "create", config |-> actionConfig,
                result |-> CreateAction(actionConfig)]
    /\ UNCHANGED <<clock, config, States, file, pc, loc, last, accepts, undelivered,
                   carried, eval, dispatch>>

NextCreate == Create

SpecCreate == InitCreate /\ [][NextCreate]_vars

(* ------------------------ properties of Spec --------------------------- *)

\* The metric of a key.
MetricOf(k) == CHOOSE m \in MetricNames : \E l \in LevelNames : Key(m, l) = k

\* The throttle settings that govern a key.
ThrottleOf(k) == GetThrottleConfig(config, MetricOf(k))

\* Key k was a candidate in the last cycle of the running process.
Candidate(k) == last.ran /\ k \in last.candidates

\* Key k was a candidate in the last cycle and in the cycle before it.
LaterCycle(k) == Candidate(k) /\ k \notin last.fresh

\* The seconds between the first detection of k and the last cycle.
DurationAtLast(k) == last.now - States[k].FirstDetectedTime

\* C1: with repeat=false and min_duration 0, a key that is a candidate in
\* every cycle of a run is accepted once by the first cycle of the run and
\* not at all by every later cycle, although it is still a candidate there.
C1_AcceptedByFirstCycleOnly ==
    \A k \in AllKeys :
        (Candidate(k) /\ ~ThrottleOf(k).Repeat
            /\ ThrottleOf(k).MinDurationMinutes = 0)
        => /\ Count(last.accepted, k) = (IF k \in last.fresh THEN 1 ELSE 0)
           /\ accepts[k] = 1

\* A later cycle of a run still has the candidate and accepts nothing for it.
C1_Witness ==
    \E k \in AllKeys :
        /\ LaterCycle(k)
        /\ ~ThrottleOf(k).Repeat
        /\ ThrottleOf(k).MinDurationMinutes = 0
        /\ Count(last.accepted, k) = 0
        /\ accepts[k] = 1

\* C4: a violation accepted in the current episode whose dispatch failed has
\* has_alerted=true in the manager and in the state file, and with
\* repeat=false no later cycle of the episode has accepted it again.
C4_FailureDoesNotRearm ==
    \A k \in undelivered :
        /\ k \in DOMAIN States
        /\ States[k].HasAlerted
        /\ ~NewStateManager(file).err
        /\ k \in DOMAIN NewStateManager(file).States
        /\ NewStateManager(file).States[k].HasAlerted
        /\ ~ThrottleOf(k).Repeat => accepts[k] = 1

\* A cycle after the failed dispatch has the candidate again and suppresses it.
C4_Witness ==
    \E k \in undelivered :
        /\ LaterCycle(k)
        /\ ~last.failed
        /\ ~ThrottleOf(k).Repeat
        /\ Count(last.accepted, k) = 0

\* C5: a candidate whose duration at the cycle is below min_duration_minutes
\* is suppressed and not marked (no has_alerted, no last_alert_time); one
\* whose duration has reached it has been accepted, and with repeat=false
\* exactly once.
C5_MinDuration ==
    \A k \in AllKeys :
        Candidate(k)
        => /\ k \in DOMAIN States
           /\ IF DurationAtLast(k) < 60 * ThrottleOf(k).MinDurationMinutes
              THEN /\ ~States[k].HasAlerted
                   /\ States[k].LastAlertTime = <<>>
                   /\ Count(last.accepted, k) = 0
                   /\ accepts[k] = 0
              ELSE /\ States[k].HasAlerted
                   /\ accepts[k] >= 1
                   /\ ~ThrottleOf(k).Repeat => accepts[k] = 1

\* Under a minimum duration of a minute, a cycle past the one that accepted
\* the violation has it again and suppresses it.
C5_Witness ==
    \E k \in AllKeys :
        /\ LaterCycle(k)
        /\ ThrottleOf(k).MinDurationMinutes = 1
        /\ ~ThrottleOf(k).Repeat
        /\ DurationAtLast(k) >= 60
        /\ States[k].LastAlertTime = <<clock>>
        /\ Count(last.accepted, k) = 0
        /\ accepts[k] = 1

\* C6: with repeat=true and a parsable positive repeat_interval, a cycle
\* leaves an already alerted candidate alone while now - last_alert_time is
\* below the interval, and accepts it and moves last_alert_time to now once
\* it is not.
C6_RepeatIntervalHonoured ==
    [][\A k \in AllKeys :
        (/\ last'.ran /\ clock' = clock /\ k \in last'.candidates
         /\ ThrottleOf(k).Repeat
         /\ ~parseDuration(ThrottleOf(k).RepeatInterval).err
         /\ parseDuration(ThrottleOf(k).RepeatInterval).d > 0
         /\ k \in DOMAIN States /\ States[k].HasAlerted
         /\ DurationMinutes(States[k], clock) >= 60 * ThrottleOf(k).MinDurationMinutes)
        => IF clock - States[k].LastAlertTime[1]
                < parseDuration(ThrottleOf(k).RepeatInterval).d
           THEN Count(last'.accepted, k) = 0 /\ States'[k] = States[k]
           ELSE Count(last'.accepted, k) >= 1 /\ States'[k].LastAlertTime = <<clock>>
      ]_vars

\* C7: with repeat=true and an empty repeat_interval, every cycle accepts
\* each candidate whose duration has reached min_duration_minutes, the
\* already alerted ones included.
C7_RepeatEveryCycle ==
    \A k \in AllKeys :
        (/\ Candidate(k)
         /\ ThrottleOf(k).Repeat /\ ThrottleOf(k).RepeatInterval = ""
         /\ k \in DOMAIN States
         /\ DurationAtLast(k) >= 60 * ThrottleOf(k).MinDurationMinutes)
        => /\ Count(last.accepted, k) >= 1
           /\ States[k].LastAlertTime = <<last.now>>

\* An already alerted violation is accepted again by a later cycle.
C7_Witness ==
    \E k \in AllKeys :
        /\ LaterCycle(k)
        /\ ThrottleOf(k).Repeat /\ ThrottleOf(k).RepeatInterval = ""
        /\ ThrottleOf(k).MinDurationMinutes = 1
        /\ States[k].FirstDetectedTime = 0
        /\ last.now = 60
        /\ accepts[k] = 2
        /\ Count(last.accepted, k) = 1

\* C8: with repeat=true and a repeat_interval that does not parse, a cycle
\* that meets an already alerted candidate returns an error, does not accept
\* the candidate and leaves its state as it was.
C8_UnparsableIntervalSurfaced ==
    [][\A k \in AllKeys :
        (/\ last'.ran /\ clock' = clock /\ k \in last'.candidates
         /\ ThrottleOf(k).Repeat
         /\ ThrottleOf(k).RepeatInterval # ""
         /\ parseDuration(ThrottleOf(k).RepeatInterval).err
         /\ k \in DOMAIN States /\ States[k].HasAlerted
         /\ DurationMinutes(States[k], clock) >= 60 * ThrottleOf(k).MinDurationMinutes)
        => /\ last'.err
           /\ Count(last'.accepted, k) = 0
           /\ States'[k] = States[k]
      ]_vars

\* C9: with repeat=false, a key alerted before the last start of the
\* process and a candidate in every cycle since is not accepted by a cycle
\* of the new process.
C9_ThrottleSurvivesRestart ==
    \A k \in carried :
        (Candidate(k) /\ ~ThrottleOf(k).Repeat)
        => /\ Count(last.accepted, k) = 0
           /\ accepts[k] = 1

\* A cycle of a restarted process has the carried key as a candidate.
C9_Witness ==
    \E k \in carried :
        /\ Candidate(k)
        /\ ~ThrottleOf(k).Repeat
        /\ Count(last.accepted, k) = 0

\* C10: a fresh StateManager that loads the file the manager saved holds the
\* same keys, and under each key the same metric, level,
\* first_detected_time, last_alert_time (null included) and has_alerted.
C10_SaveLoadRoundTrip ==
    LET sm == NewStateManager(file) IN
    /\ ~sm.err
    /\ DOMAIN sm.States = DOMAIN States
    /\ \A k \in DOMAIN States :
        /\ sm.States[k].Metric = States[k].Metric
        /\ sm.States[k].Level = States[k].Level
        /\ sm.States[k].FirstDetectedTime = States[k].FirstDetectedTime
        /\ sm.States[k].LastAlertTime = States[k].LastAlertTime
        /\ sm.States[k].HasAlerted = States[k].HasAlerted

\* A saved map with an alerted state, a state that has not alerted (null
\* last_alert_time) and times of more than one digit.
C10_Witness ==
    /\ last.ran
    /\ file = save(States, NoFile)
    /\ \E k \in DOMAIN States :
        States[k].HasAlerted /\ States[k].LastAlertTime = <<60>>
    /\ \E k \in DOMAIN States :
        /\ ~States[k].HasAlerted /\ States[k].LastAlertTime = <<>>
        /\ States[k].FirstDetectedTime = 60

(* ---------------------- properties of SpecConc ------------------------- *)

\* C2: with repeat=false, the concurrent cycles of one process accept a key
\* at most once in an episode: no two of them both find has_alerted false
\* and both alert.
C2_AtMostOneAccepts ==
    \A k \in AllKeys \ carried :
        ~ThrottleOf(k).Repeat => accepts[k] <= 1

\* C3: whenever no save is in progress, the state file, if there is one,
\* holds a complete serialization of a state map: NewStateManager loads it.
C3_FileAlwaysComplete ==
    (\A h \in Handlers : pc[h] \notin {"clearwrite", "savewrite"})
    => ~NewStateManager(file).err

\* C11: NewStateManager on a missing state file returns an empty map and no
\* error; on a state file whose content does not parse as a state map it
\* returns an error, and the process does not start from an empty map.
C11_LoadMissingAndCorrupt ==
    /\ ~file.exists
       => ~NewStateManager(file).err /\ NewStateManager(file).States = EmptyStates
    /\ (file.exists /\ Unmarshal(file.data).err)
       => /\ NewStateManager(file).err
          /\ ~ENABLED Start

\* A crash has left a state file that does not parse, and the process is down.
C11_Witness ==
    /\ file.exists
    /\ Unmarshal(file.data).err
    /\ Len(file.data) > 0
    /\ \A h \in Handlers : pc[h] = "down"

(* -------------------- properties of SpecWriteFails --------------------- *)

\* C12: a cycle in which writing the state file failed returns an error to
\* its caller.
C12_WriteFailureReported ==
    (last.ran /\ last.saveErr) => last.err

(* ----------------------- properties of SpecEval ------------------------ *)

\* The metric is named by the configuration and enabled.
Evaluated(metric) ==
    metric \in DOMAIN config.Metrics /\ config.Metrics[metric].Enabled

\* The threshold of a metric the configuration names, 0 when it has none.
ThresholdAt(metric, level) == Threshold(config.Metrics[metric].Thresholds, level)

\* The candidates of the last evaluation with this metric and level.
Found(metric, level) ==
    {i \in DOMAIN eval.violations :
        eval.violations[i].Metric = metric /\ eval.violations[i].Level = level}

\* Those of them that are about this partition.
FoundFor(partition, level) ==
    {i \in Found("disk", level) :
        eval.violations[i].Message = <<partition.Device, partition.Mountpoint>>}

\* C13: each evaluated partition yields at most one violation: exactly one
\* critical and no warning when its usage is above an enabled critical
\* threshold, otherwise exactly one warning when it is above an enabled
\* warning threshold, otherwise nothing.
C13_OneViolationPerPartition ==
    (eval.ran /\ Evaluated("disk"))
    => \A n \in DOMAIN eval.stats.Partitions :
        LET partition == eval.stats.Partitions[n]
            usage == ParseFloat(partition.Percentage)
            criticals == Cardinality(FoundFor(partition, "critical"))
            warnings == Cardinality(FoundFor(partition, "warning"))
        IN  IF usage.err
            THEN criticals = 0 /\ warnings = 0
            ELSE IF ThresholdAt("disk", "critical") > 0
                    /\ usage.val > ThresholdAt("disk", "critical")
            THEN criticals = 1 /\ warnings = 0
            ELSE IF ThresholdAt("disk", "warning") > 0
                    /\ usage.val > ThresholdAt("disk", "warning")
            THEN criticals = 0 /\ warnings = 1
            ELSE criticals = 0 /\ warnings = 0

\* Three partitions in one snapshot: one critical, one warning, one quiet.
C13_Witness ==
    /\ eval.ran
    /\ Evaluated("disk")
    /\ Len(eval.stats.Partitions) = 3
    /\ Cardinality(Found("disk", "critical")) = 1
    /\ Cardinality(Found("disk", "warning")) = 1
    /\ eval.violations[1].Level = "warning"
    /\ eval.violations[2].Value = 95

\* The readings of a metric in the last snapshot that parse, as the
\* percentage used.
Readings(metric) ==
    LET one(s) == IF ParseFloat(s).err THEN {} ELSE {ParseFloat(s).val} IN
    IF metric = "cpu" THEN one(eval.stats.TotalCPUUsage)
    ELSE IF metric = "memory" THEN one(eval.stats.MemoryPercentage)
    ELSE UNION {one(eval.stats.Partitions[n].Percentage) :
                    n \in DOMAIN eval.stats.Partitions}

\* The metric is compared by the percentage free (memory in min_free mode,
\* which is also the mode when none is set).
ByFree(metric) ==
    metric = "memory" /\ config.Metrics[metric].Mode \in {"", "min_free"}

\* Some reading of the metric is beyond the threshold t: more used than t,
\* or less free than t.
Beyond(metric, t) ==
    \E used \in Readings(metric) :
        IF ByFree(metric) THEN 100 - used < t ELSE used > t

OtherLevel(level) == IF level = "critical" THEN "warning" ELSE "critical"

\* C14: a severity whose threshold is 0 or absent yields no violation for
\* any reading, and the other severity yields one exactly when its own
\* threshold is enabled and a reading is beyond it.
C14_ZeroThresholdDisables ==
    eval.ran
    => \A metric \in MetricNames, level \in LevelNames :
        (Evaluated(metric) /\ ThresholdAt(metric, level) = 0)
        => /\ Found(metric, level) = {}
           /\ Found(metric, OtherLevel(level)) # {}
              <=> /\ ThresholdAt(metric, OtherLevel(level)) > 0
                  /\ Beyond(metric, ThresholdAt(metric, OtherLevel(level)))

\* With no critical threshold for cpu, a reading of 95 yields a warning.
C14_Witness ==
    /\ eval.ran
    /\ Evaluated("cpu")
    /\ "critical" \notin DOMAIN config.Metrics["cpu"].Thresholds
    /\ Readings("cpu") = {95}
    /\ Found("cpu", "critical") = {}
    /\ Found("cpu", "warning") # {}

\* Every reading of the metric is exactly at the threshold t.
AllAt(metric, t) ==
    /\ Readings(metric) # {}
    /\ \A used \in Readings(metric) :
        IF ByFree(metric) THEN 100 - used = t ELSE used = t

\* C15: a reading exactly at a threshold does not violate it: every
\* violation's value is strictly above its threshold (strictly below, for
\* memory by free percentage), and a metric whose readings are all at a
\* severity's threshold yields nothing at that severity.
C15_EqualDoesNotViolate ==
    eval.ran
    => \A metric \in MetricNames, level \in LevelNames :
        Evaluated(metric)
        => /\ \A i \in Found(metric, level) :
                IF ByFree(metric)
                THEN eval.violations[i].Value < ThresholdAt(metric, level)
                ELSE eval.violations[i].Value > ThresholdAt(metric, level)
           /\ AllAt(metric, ThresholdAt(metric, level))
              => Found(metric, level) = {}

\* cpu at exactly the critical threshold of 90: a warning, no critical.
C15_Witness ==
    /\ eval.ran
    /\ Evaluated("cpu")
    /\ ThresholdAt("cpu", "critical") = 90
    /\ ThresholdAt("cpu", "warning") = 70
    /\ AllAt("cpu", 90)
    /\ Found("cpu", "critical") = {}
    /\ Found("cpu", "warning") # {}

\* The severity the memory reading calls for under the configured mode:
\* critical is looked at first, then warning; "none" when neither is crossed.
MemoryLevel(used) ==
    LET crossed(level) ==
            /\ ThresholdAt("memory", level) > 0
            /\ IF config.Metrics["memory"].Mode \in {"", "min_free"}
               THEN 100 - used < ThresholdAt("memory", level)
               ELSE used > ThresholdAt("memory", level)
    IN  IF crossed("critical") THEN "critical"
        ELSE IF crossed("warning") THEN "warning"
        ELSE "none"

\* C16: memory is judged by its mode: in min_free mode, and when no mode is
\* set, a violation means the free percentage is below the threshold; in
\* max_used mode it means the used percentage is above it.  Critical is
\* looked at before warning and a cycle has at most one memory violation,
\* whose value is the percentage the mode compares.
C16_MemoryMode ==
    (eval.ran /\ Evaluated("memory"))
    => \A used \in Readings("memory") :
        /\ Cardinality(Found("memory", "critical") \cup Found("memory", "warning")) <= 1
        /\ \A level \in LevelNames :
            /\ Found("memory", level) # {} <=> MemoryLevel(used) = level
            /\ \A i \in Found("memory", level) :
                eval.violations[i].Value
                    = IF config.Metrics["memory"].Mode \in {"", "min_free"}
                      THEN 100 - used
                      ELSE used

\* No mode set, 96% used: 4% free is below the critical 5, one critical and
\* no warning although 4 is below the warning threshold too.
C16_Witness ==
    /\ eval.ran
    /\ Evaluated("memory")
    /\ config.Metrics["memory"].Mode = ""
    /\ Readings("memory") = {96}
    /\ ThresholdAt("memory", "critical") = 5
    /\ ThresholdAt("memory", "warning") = 20
    /\ Cardinality(Found("memory", "critical")) = 1
    /\ Found("memory", "warning") = {}

\* C17: a metric that is disabled, or that the configuration does not name,
\* yields no candidate violation whatever its reading.
C17_DisabledYieldsNothing ==
    eval.ran
    => \A metric \in MetricNames :
        (metric \notin DOMAIN config.Metrics \/ ~config.Metrics[metric].Enabled)
        => \A i \in DOMAIN eval.violations : eval.violations[i].Metric # metric

\* disk is configured with thresholds 70 and 90 but disabled, a partition is
\* 95% full, and the evaluation has no disk candidate.
C17_Witness ==
    /\ eval.ran
    /\ "disk" \in DOMAIN config.Metrics
    /\ ~config.Metrics["disk"].Enabled
    /\ ThresholdAt("disk", "critical") = 90
    /\ 95 \in Readings("disk")
    /\ \A i \in DOMAIN eval.violations : eval.violations[i].Metric # "disk"

\* The exclusion rules the configuration document gives the disk metric.
ExcludeOf(c) ==
    IF "disk" \in DOMAIN c.Metrics /\ "Exclude" \in DOMAIN c.Metrics["disk"]
    THEN c.Metrics["disk"].Exclude
    ELSE NoExclude

\* The partition's usage is above an enabled disk threshold.
AboveDiskThreshold(partition) ==
    LET p == ParseFloat(partition.Percentage) IN
    /\ ~p.err
    /\ \E level \in LevelNames :
        ThresholdAt("disk", level) > 0 /\ p.val > ThresholdAt("disk", level)

\* C18: a partition that matches an exclusion pattern of the disk metric
\* (by device, filesystem type or mountpoint) yields no violation whatever
\* its usage, and a partition that matches none is evaluated normally.
C18_ExcludedYieldsNothing ==
    (eval.ran /\ Evaluated("disk"))
    => \A n \in DOMAIN eval.stats.Partitions :
        LET partition == eval.stats.Partitions[n]
            found == FoundFor(partition, "critical") \cup FoundFor(partition, "warning")
        IN  IF isPartitionExcludedByConfig(partition, ExcludeOf(config))
            THEN found = {}
            ELSE found # {} <=> AboveDiskThreshold(partition)

(* ----------------------- properties of SpecDispatch ----------------------- *)

\* The list the last dispatch was given for a severity.
Given(level) == IF level = "critical" THEN dispatch.criticals ELSE dispatch.warnings

\* The positions of a severity's chain whose action is of this type and was
\* constructed.
Constructed(level, type) ==
    {i \in DOMAIN GetAlertActions(config, level) :
        LET a == CreateAction(GetAlertActions(config, level)[i]) IN
        ~a.err /\ a.type = type}

\* The Execute calls of the last dispatch on this type of action for this
\* violation.
Executed(type, violation) ==
    {i \in DOMAIN dispatch.executions :
        dispatch.executions[i].type = type /\ dispatch.executions[i].violation = violation}

C20_FirstErrorReturned ==
    dispatch.ran
    => /\ \A level \in LevelNames, type \in ActionTypes :
            Len(Given(level)) > 0
            => \A n \in DOMAIN Given(level) :
                Cardinality(Executed(type, Given(level)[n]))
                    = Cardinality(Constructed(level, type))
       /\ dispatch.err
          <=> \/ \E i \in DOMAIN dispatch.created : dispatch.created[i].err
              \/ \E i \in DOMAIN dispatch.executions : dispatch.executions[i].err

(* ----------------------- properties of SpecWebhook ------------------------ *)

\* The most passes the loop over attempt < Retry can make.
MostAttempts == IF act.Retry > 0 THEN act.Retry ELSE 0

\* The attempts of the Execute call that got a 2xx response.
Delivered == {i \in DOMAIN act.outcomes :
                ~act.outcomes[i].transport /\ act.outcomes[i].status \in 200 .. 299}

\* C21: WebhookAction.Execute posts one attempt after another until the
\* first 2xx response or until Retry attempts are made; it returns no error
\* if and only if an attempt got a 2xx response, and the error it returns
\* otherwise carries the failure of the last attempt.
C21_WebhookRetry ==
    act.kind = "webhook"
    => /\ Len(act.outcomes) = act.attempt
       /\ act.attempt <= MostAttempts
       /\ Delivered \subseteq {Len(act.outcomes)}
       /\ ~act.done => Delivered = {}
       /\ act.done
          => /\ ~act.err <=> Delivered # {}
             /\ act.err
                => /\ act.attempt = MostAttempts
                   /\ act.attempt > 0 => act.wrapped = act.outcomes[act.attempt]

\* retry 3 against 500, 500, 200: delivered by the third attempt, no error.
C21_Witness ==
    /\ act.kind = "webhook"
    /\ act.Retry = 3
    /\ act.outcomes = <<Outcome(FALSE, 500), Outcome(FALSE, 500), Outcome(FALSE, 200)>>
    /\ act.done
    /\ ~act.err

(* ------------------------ properties of SpecScript ------------------------ *)

\* C22: a script process that has not finished when the timeout expires is
\* terminated and Execute returns the timeout error, which is not the error
\* of a process that exits non-zero within the timeout; a process that exits
\* 0 within the timeout gives no error.
C22_ScriptTimeout ==
    (act.kind = "script" /\ act.returned)
    => /\ act.proc # "running"
       /\ act.proc = "killed" => (act.err = "timeout" /\ act.elapsed = act.Timeout)
       /\ (act.proc \in {"exitN", "startfail"} /\ act.finishedAt < act.Timeout)
          => act.err = "failed"
       /\ (act.proc = "exit0" /\ act.finishedAt < act.Timeout) => act.err = "nil"
       /\ act.err = "timeout" => act.elapsed >= act.Timeout

\* The timer fired on a running process: killed, timeout error.
C22_Witness ==
    /\ act.kind = "script"
    /\ act.returned
    /\ act.proc = "killed"
    /\ act.err = "timeout"
    /\ act.Timeout = 2

(* ------------------------ properties of SpecCreate ------------------------ *)

\* C23: CreateAction gives an action of the matching variant for each of the
\* type tags logger, syslog, webhook, script and stdout when the variant's
\* required fields are present, and an error for a missing type, an unknown
\* type, a webhook without url and a script without path.
C23_CreateActionVariants ==
    act.kind = "create"
    => IF \/ "type" \notin DOMAIN act.config
          \/ act.config["type"] \notin {"logger", "syslog", "webhook", "script", "stdout"}
          \/ act.config["type"] = "webhook" /\ "url" \notin DOMAIN act.config
          \/ act.config["type"] = "script" /\ "path" \notin DOMAIN act.config
       THEN act.result.err
       ELSE ~act.result.err /\ act.result.type = act.config["type"]

(* ------------------------- properties of SpecStore ------------------------ *)

\* The snapshot of the last cycle has a reading that does not parse.
HasMalformed ==
    \/ ParseFloat(eval.stats.TotalCPUUsage).err
    \/ ParseFloat(eval.stats.MemoryPercentage).err
    \/ \E n \in DOMAIN eval.stats.Partitions :
        ParseFloat(eval.stats.Partitions[n].Percentage).err

\* C24: a reading that does not parse skips that metric (that partition)
\* only: the readings that do parse are evaluated as usual, the candidates
\* get their states, the resolved ones are cleared, the store is written to
\* the file, and the cycle reports no error.
C24_MalformedSkipsOnlyItself ==
    (last.ran /\ eval.ran /\ HasMalformed)
    => /\ \A metric \in MetricNames :
            Evaluated(metric)
            => ((\E level \in LevelNames : Found(metric, level) # {})
                <=> \E level \in LevelNames :
                        /\ ThresholdAt(metric, level) > 0
                        /\ Beyond(metric, ThresholdAt(metric, level)))
       /\ last.candidates = KeysOf(eval.violations)
       /\ DOMAIN States = last.candidates
       /\ \A k \in last.fresh :
            ThrottleOf(k).MinDurationMinutes = 0
            => \E i \in DOMAIN last.accepted : last.accepted[i] = k
       /\ ~NewStateManager(file).err
       /\ NewStateManager(file).States = States
       /\ ~last.err

\* cpu does not parse and memory is at 97%: the cycle has the memory
\* critical as its candidate, accepts it and has it on file.
C24_Witness ==
    /\ last.ran
    /\ eval.ran
    /\ ParseFloat(eval.stats.TotalCPUUsage).err
    /\ last.candidates = {Key("memory", "critical")}
    /\ last.accepted = <<Key("memory", "critical")>>
    /\ DOMAIN NewStateManager(file).States = {Key("memory", "critical")}

\* C25: after every completed cycle the keys of the store are exactly the
\* keys of that cycle's candidates: a state exists if and only if its
\* violation has been observed and is not yet resolved.
C25_StoreKeysAreCandidates ==
    last.ran
    => /\ DOMAIN States = last.candidates
       /\ \A k \in DOMAIN States :
            Key(States[k].Metric, States[k].Level) = k

\* A cycle that found a key for the first time and dropped another: the
\* store holds the first and not the second.
C25_Witness ==
    /\ last.ran
    /\ last.cleared # {}
    /\ last.fresh # {}
    /\ DOMAIN States = last.candidates
    /\ last.cleared \cap DOMAIN States = {}

\* C26: clearResolvedViolations deletes every stored key that is not among
\* the current candidates, and keeps every stored key that is among them
\* with its fields as applyThrottling left them.
C26_ReconcileFrame ==
    [][(last'.ran /\ clock' = clock)
       => \A all \in {allViolations(config, eval'.stats)} :
          \A throttled \in {applyThrottling(config, all, States, clock).States} :
          \A keys \in {KeysOf(all)} :
              /\ DOMAIN States' = DOMAIN throttled \cap keys
              /\ \A k \in DOMAIN States' : States'[k] = throttled[k]
              /\ last'.cleared = DOMAIN States \ keys]_vars

\* A cycle that dropped a resolved key and kept an alerted one, whose first
\* detection and alert date from the cycle before.
C26_Witness ==
    /\ last.ran
    /\ last.cleared # {}
    /\ \E k \in last.candidates \ last.fresh :
        /\ States[k].HasAlerted
        /\ States[k].FirstDetectedTime < last.now
        /\ States[k].LastAlertTime # <<last.now>>

\* C27: a candidate that applyThrottling accepts, as a first alert or as a
\* repeat, has its state marked in the same cycle: has_alerted is true and
\* last_alert_time is the time of the cycle.
C27_AcceptedIsMarked ==
    last.ran
    => \A i \in DOMAIN last.accepted :
        /\ last.accepted[i] \in DOMAIN States
        /\ States[last.accepted[i]].HasAlerted
        /\ States[last.accepted[i]].LastAlertTime = <<last.now>>

\* A repeat: a key first detected and accepted in an earlier cycle is
\* accepted again and its last_alert_time moves to the time of this cycle.
C27_Witness ==
    /\ last.ran
    /\ \E i \in DOMAIN last.accepted :
        /\ last.accepted[i] \notin last.fresh
        /\ accepts[last.accepted[i]] = 2
        /\ States[last.accepted[i]].FirstDetectedTime < last.now
        /\ States[last.accepted[i]].HasAlerted
        /\ States[last.accepted[i]].LastAlertTime = <<last.now>>

\* C28: no operation changes the first_detected_time of a key's state for
\* as long as the key stays a candidate in every cycle: a key that is in
\* the store before and after a step (a cycle with its GetOrCreate,
\* ShouldAlert, MarkAlerted, reconcile and Save, a restart from the file,
\* or time passing) has the same first_detected_time before and after.
C28_FirstDetectedKept ==
    [][\A k \in DOMAIN States \cap DOMAIN States' :
          States'[k].FirstDetectedTime = States[k].FirstDetectedTime]_vars

\* A key first detected at 0 is still a candidate in a cycle at 60, after a
\* restart in between, and still carries 0.
C28_Witness ==
    /\ last.ran
    /\ last.now = 60
    /\ \E k \in last.candidates \cap carried :
        /\ k \notin last.fresh
        /\ States[k].FirstDetectedTime = 0

\* C29: in every state of the store that GetOrCreate, MarkAlerted, Clear and
\* the cycles produce, in memory and as loaded back from the file, a
\* ViolationState with a last_alert_time has has_alerted = true.
C29_AlertTimeImpliesAlerted ==
    /\ \A k \in DOMAIN States :
        States[k].LastAlertTime # <<>> => States[k].HasAlerted
    /\ ~NewStateManager(file).err
       => \A k \in DOMAIN NewStateManager(file).States :
            NewStateManager(file).States[k].LastAlertTime # <<>>
            => NewStateManager(file).States[k].HasAlerted

\* The store holds a state that was alerted, with its time, next to a state
\* that is waiting for its minimum duration, with none.
C29_Witness ==
    \E k \in DOMAIN States, j \in DOMAIN States :
        /\ States[k].HasAlerted
        /\ States[k].LastAlertTime # <<>>
        /\ ~States[j].HasAlerted
        /\ States[j].LastAlertTime = <<>>
        /\ ThrottleOf(j).MinDurationMinutes > 0

\* C30: a key that was absent from the candidates of a cycle, and so lost
\* its state, starts a new episode when it comes back: its state is created
\* anew with first_detected_time = now and nothing alerted, so with
\* min_duration 0 it is accepted again whatever repeat says, and with a
\* min_duration it waits again from now.  (last.returned are the candidates
\* of the last cycle whose state the cycle before had cleared.)
C30_ReappearanceIsNewEpisode ==
    last.ran
    => \A k \in last.returned :
        /\ k \in last.fresh
        /\ k \in DOMAIN States
        /\ States[k].FirstDetectedTime = last.now
        /\ IF ThrottleOf(k).MinDurationMinutes = 0
           THEN /\ \E i \in DOMAIN last.accepted : last.accepted[i] = k
                /\ States[k].HasAlerted
                /\ States[k].LastAlertTime = <<last.now>>
           ELSE /\ \A i \in DOMAIN last.accepted : last.accepted[i] # k
                /\ ~States[k].HasAlerted
                /\ States[k].LastAlertTime = <<>>

\* repeat=false and min_duration 0: a key cleared by the cycle before is a
\* candidate again at 60 and is accepted again.
C30_Witness ==
    /\ last.ran
    /\ last.now = 60
    /\ \E k \in last.returned :
        /\ ~ThrottleOf(k).Repeat
        /\ ThrottleOf(k).MinDurationMinutes = 0
        /\ \E i \in DOMAIN last.accepted : last.accepted[i] = k
        /\ States[k].FirstDetectedTime = 60

\* ------------------------------------------------------------------
\* Persistence and ordering of one cycle
\* ------------------------------------------------------------------

\* C31: when a cycle has returned its result, the state file decodes to the
\* in-memory state map: the same keys and, for every key, the same fields,
\* so every creation, mark-alerted update and deletion of the cycle is on
\* disk.
C31_FileHoldsStoreAtReturn ==
    last.ran =>
        \E onDisk \in {NewStateManager(file)} :
            /\ ~onDisk.err
            /\ onDisk.States = States

\* C32: in every cycle the throttling loop, the reconciliation and the write
\* of the state file are complete before the first alert action runs: a
\* handler enters its dispatch only from the last half of Save, with its
\* loop over the candidates finished and no key left to clear, and the
\* dispatch itself changes neither the state map nor the state file.
C32_StateWorkBeforeDispatch ==
    [][\A h \in Handlers :
        /\ (pc'[h] = "dispatch" /\ pc[h] # "dispatch")
            => /\ pc[h] = "savewrite"
               /\ loc[h].i > Len(loc[h].violations)
               /\ loc[h].keysToClear = {}
               /\ file' = WriteAt0(file, loc[h].data)
        /\ (pc[h] = "dispatch" /\ pc'[h] = "idle")
            => /\ States' = States
               /\ file' = file]_vars

\* A handler is about to dispatch an accepted violation whose state is
\* already marked in the map and in the file, and the file holds exactly
\* the keys of the cycle's candidates.
C32_Witness ==
    \E h \in Handlers :
        /\ pc[h] = "dispatch"
        /\ Len(loc[h].throttled) > 0
        /\ \E onDisk \in {NewStateManager(file)} :
            /\ ~onDisk.err
            /\ \A i \in DOMAIN loc[h].throttled :
                \E k \in {ViolationKey(loc[h].throttled[i])} :
                    /\ k \in DOMAIN States
                    /\ States[k].HasAlerted
                    /\ k \in DOMAIN onDisk.States
                    /\ onDisk.States[k].HasAlerted
            /\ DOMAIN onDisk.States = KeysOf(loc[h].violations)

\* C33: a cycle in which throttling fails (a candidate whose alerted state
\* is tested against a repeat_interval that does not parse) executes no
\* alert action, for that candidate or any other, and returns an error to
\* its caller.
C33_FailedCycleSendsNothing ==
    [][(/\ last'.ran /\ clock' = clock
        /\ \E k \in last'.candidates :
            /\ k \in DOMAIN States
            /\ States[k].HasAlerted
            /\ DurationMinutes(States[k], clock) >= 60 * ThrottleOf(k).MinDurationMinutes
            /\ ThrottleOf(k).Repeat
            /\ ThrottleOf(k).RepeatInterval # ""
            /\ parseDuration(ThrottleOf(k).RepeatInterval).err)
        => /\ last'.err
           /\ last'.accepted = <<>>
           /\ ~last'.failed
      ]_vars

\* C34: a cycle writes the state file exactly once, whatever the number of
\* states it creates, marks and deletes.
C34_OneWritePerCycle ==
    [][(last'.ran /\ eval'.ran /\ clock' = clock)
        => \E r \in {CheckAllThresholds(config, eval'.stats,
                                        [States |-> States, file |-> file, writes |-> 0],
                                        clock)} :
            /\ r.sm.States = States'
            /\ r.sm.writes = 1
      ]_vars

\* The manager as a cycle finds it.
Manager == [States |-> States, file |-> file, writes |-> 0]

\* C35: reconciliation is idempotent: for every candidate set, running
\* clearResolvedViolations again on its own result changes neither the keys
\* of the map nor a field of a remaining state, and writes nothing.
C35_ReconcileIdempotent ==
    \A stats \in StatsInputs :
        \E all \in {allViolations(config, stats)} :
        \E once \in {clearResolvedViolations(all, Manager)} :
        \E twice \in {clearResolvedViolations(all, [once EXCEPT !.writes = 0])} :
            /\ twice.States = once.States
            /\ twice.file = once.file
            /\ twice.writes = 0

\* A map of several states from which some candidate set clears more than
\* one state and keeps an alerted one.
C35_Witness ==
    \E stats \in StatsInputs :
        \E once \in {clearResolvedViolations(allViolations(config, stats), Manager)} :
            /\ Cardinality(DOMAIN States \ DOMAIN once.States) >= 2
            /\ \E k \in DOMAIN once.States : once.States[k].HasAlerted
            /\ once.writes >= 2

\* C36: GetOrCreate on a key the map does not hold adds one state with the
\* given metric and level, first_detected_time = now, has_alerted = false
\* and no last_alert_time, and leaves the other states alone; on a key the
\* map holds it changes nothing and returns the state that is there; the
\* pairs of {disk, cpu, memory} x {warning, critical} have states of their
\* own: two different pairs never share a key.
C36_GetOrCreate ==
    \A metric \in MetricNames, level \in LevelNames :
        \E key \in {Key(metric, level)} :
        \E S1 \in {GetOrCreate(States, metric, level, clock)} :
            /\ key \in DOMAIN S1
            /\ S1[key].Metric = metric
            /\ S1[key].Level = level
            /\ IF key \in DOMAIN States
               THEN S1 = States
               ELSE /\ DOMAIN S1 = DOMAIN States \cup {key}
                    /\ \A k \in DOMAIN States : S1[k] = States[k]
                    /\ S1[key].FirstDetectedTime = clock
                    /\ S1[key].HasAlerted = FALSE
                    /\ S1[key].LastAlertTime = <<>>
            /\ \A metric2 \in MetricNames, level2 \in LevelNames :
                <<metric2, level2>> # <<metric, level>>
                => \E S2 \in {GetOrCreate(S1, metric2, level2, clock)} :
                    /\ Key(metric2, level2) # key
                    /\ S2[key] = S1[key]
                    /\ S2[Key(metric2, level2)] # S2[key]
                    /\ Cardinality(DOMAIN S2) = Cardinality(DOMAIN States \cup {key, Key(metric2, level2)})

\* A map, later than its first cycle, that holds an alerted state detected
\* earlier (GetOrCreate returns it) and lacks other keys (GetOrCreate
\* creates them).
C36_Witness ==
    /\ clock > 0
    /\ \E k \in DOMAIN States :
        /\ States[k].HasAlerted
        /\ States[k].FirstDetectedTime < clock
        /\ GetOrCreate(States, States[k].Metric, States[k].Level, clock)[k] = States[k]
    /\ \E metric \in MetricNames, level \in LevelNames :
        /\ Key(metric, level) \notin DOMAIN States
        /\ GetOrCreate(States, metric, level, clock)[Key(metric, level)].FirstDetectedTime = clock

\* C37: within one cycle, of several candidates that share a key (two disk
\* partitions both at warning), at most one is accepted when repeat is
\* false or repeat has a positive interval: the first marks the shared
\* state and the later ones are suppressed by it.
C37_OneAcceptPerSharedKey ==
    \A k \in AllKeys :
        (/\ last.ran
         /\ k \in last.candidates
         /\ \/ ~ThrottleOf(k).Repeat
            \/ /\ ThrottleOf(k).Repeat
               /\ ~parseDuration(ThrottleOf(k).RepeatInterval).err
               /\ parseDuration(ThrottleOf(k).RepeatInterval).d > 0)
        => Count(last.accepted, k) <= 1

\* C38: when a cycle finds a metric at another severity than the cycle
\* before did (the old key no longer a candidate, the new key a candidate
\* the map does not hold), the old severity's state is deleted in that cycle
\* and the new one is created in it with first_detected_time = now and
\* unalerted: it is alerted after the cycle only if this cycle accepted it,
\* and with a min_duration above zero it is not, the duration being counted
\* from the change.
C38_SeverityChangeStartsFresh ==
    [][(last.ran /\ last'.ran /\ clock' = clock)
       => \A metric \in MetricNames, old \in LevelNames, new \in LevelNames :
            (/\ old # new
             /\ Key(metric, old) \in DOMAIN States
             /\ Key(metric, new) \notin DOMAIN States
             /\ Key(metric, old) \notin last'.candidates
             /\ Key(metric, new) \in last'.candidates)
            => \E ko \in {Key(metric, old)}, kn \in {Key(metric, new)} :
                /\ ko \notin DOMAIN States'
                /\ kn \in DOMAIN States'
                /\ States'[kn].FirstDetectedTime = clock
                /\ States'[kn].HasAlerted <=> Count(last'.accepted, kn) > 0
                /\ States'[kn].HasAlerted => States'[kn].LastAlertTime = <<clock>>
                /\ ~States'[kn].HasAlerted => States'[kn].LastAlertTime = <<>>
                /\ ThrottleOf(kn).MinDurationMinutes > 0 => ~States'[kn].HasAlerted
      ]_vars

\* A cycle later than the first detection replaced a metric's state by the
\* state of its other severity, which min_duration keeps unalerted.
C38_Witness ==
    /\ last.ran
    /\ last.now > 0
    /\ \E metric \in MetricNames, old \in LevelNames, new \in LevelNames :
        /\ old # new
        /\ Key(metric, old) \in last.cleared
        /\ Key(metric, new) \in last.fresh
        /\ Key(metric, old) \notin DOMAIN States
        /\ States[Key(metric, new)].FirstDetectedTime = last.now
        /\ ~States[Key(metric, new)].HasAlerted
        /\ ThrottleOf(Key(metric, new)).MinDurationMinutes > 0

\* The metrics with one reading per snapshot whose reading did not parse in
\* the last cycle.
Unparsed ==
    {m \in {"cpu"} : ParseFloat(eval.stats.TotalCPUUsage).err}
    \cup {m \in {"memory"} : ParseFloat(eval.stats.MemoryPercentage).err}

\* C39: a metric whose reading does not parse in a cycle contributes no
\* candidate to it, and after the cycle neither the map nor the file holds
\* a state of that metric: the state the cycle found for it, with its first
\* detection and its alerted mark, has been deleted.
C39_UnparsedMetricLosesState ==
    [][(last'.ran /\ eval'.ran /\ clock' = clock)
       => \A metric \in MetricNames, level \in LevelNames :
            \E k \in {Key(metric, level)} :
                ParseFloat(IF metric = "cpu" THEN eval'.stats.TotalCPUUsage
                           ELSE IF metric = "memory" THEN eval'.stats.MemoryPercentage
                           ELSE <<"0">>).err
                => /\ k \notin last'.candidates
                   /\ k \notin DOMAIN States'
                   /\ k \notin DOMAIN NewStateManager(file').States
                   /\ k \in DOMAIN States => k \in last'.cleared
      ]_vars

\* The last cycle could not parse the cpu reading and deleted the cpu state
\* that an earlier cycle had created.
C39_Witness ==
    /\ last.ran
    /\ eval.ran
    /\ "cpu" \in Unparsed
    /\ \E level \in LevelNames :
        /\ Key("cpu", level) \in last.cleared
        /\ Key("cpu", level) \notin DOMAIN States
        /\ Key("cpu", level) \notin DOMAIN NewStateManager(file).States

\* C40: a WebhookAction whose Retry is 0 or less makes no HTTP attempt and
\* Execute returns an error; whatever Retry is, Execute returns no error
\* only after an attempt that got a 2xx response.
C40_NoRetryNoSuccess ==
    act.kind = "webhook"
    => /\ act.Retry <= 0
          => /\ act.attempt = 0
             /\ act.outcomes = <<>>
             /\ ~ENABLED WebhookPost
             /\ act.done => act.err
       /\ (act.done /\ ~act.err)
          => /\ act.Retry >= 1
             /\ act.outcomes # <<>>
             /\ \E o \in {act.outcomes[Len(act.outcomes)]} :
                    ~o.transport /\ o.status >= 200 /\ o.status <= 299

\* Execute has returned its error for a negative Retry without a POST.
C40_Witness ==
    /\ act.kind = "webhook"
    /\ act.Retry < 0
    /\ act.done
    /\ act.err
    /\ act.outcomes = <<>>
    /\ act.wrapped = NilError

====
